---- MODULE Spec2Model ----
(***************************************************************************)
(* Review aggregation back end: the Google Shopping review scraper         *)
(* (GoogleReviewService), the /reviews/google route, and the Reddit and    *)
(* forum clients.  One invocation of one entry point is modelled per       *)
(* behaviour; the entry point is chosen by the first step.                 *)
(***************************************************************************)
EXTENDS Integers, Sequences, FiniteSets, TLC

VARIABLES
    entry,          \* which entry point this behaviour exercises
    pc,             \* position inside fetch_google_reviews / the route
    url,            \* google_shopping_url argument
    max_rounds,     \* max_clicks argument, passed on as max_rounds
    driver_made,    \* number of webdriver.Chrome objects constructed
    quits,          \* number of driver.quit() calls
    i,              \* loop index of _load_reviews_smart
    last_count,     \* _load_reviews_smart.last_count
    stable_rounds,  \* _load_reviews_smart.stable_rounds
    seen,           \* the initial count 0 and the counts read since (latest window)
    n_reads,        \* count reads performed (line 106)
    n_clicks,       \* calls of _click_more_reviews_fast
    n_expands,      \* calls of _expand_all_reviews_fast
    n_extract,      \* calls of _parse_reviews
    last_click,     \* outcome of the latest load-more attempt
    stop_reason,    \* why the loop of _load_reviews_smart was left
    exc,            \* exception propagating out of the inner try block
    faults,         \* the browser operations that raised so far
    loaded,         \* driver.get(url) has returned normally
    page,           \* review elements found by the final extraction
    all_reviews,    \* value returned by _load_reviews_smart
    result,         \* value returned by fetch_google_reviews
    response,       \* outcome of the /reviews/google route
    product_name,   \* the title search_product was called with (both clients)
    identity,       \* product identity extracted by the Reddit / forum client
    r_queries,      \* RedditClient.search_product: the queries not yet run
    r_threads,      \* _search_query: the threads not yet processed
    r_title,        \* _search_query: what the local thread_title is bound to
    r_found,        \* _search_query.all_reviews
    r_all,          \* search_product.all_reviews (both clients)
    r_seen,         \* search_product.seen_ids (both clients)
    r_requests,     \* HTTP requests issued by the client so far
    r_last,         \* how the client's latest step ended
    r_out,          \* what search_product returned
    f_todo,         \* _discover_forum_urls: the (site, query) pairs not yet tried
    f_urls,         \* _discover_forum_urls.urls, then the pages not yet fetched
    s_pc,           \* SearchService.search_all_sources: where the call is
    s_request,      \* search_all_sources: the SearchRequest
    s_slots,        \* asyncio.gather: the outcome of each source task, in task order
    s_order,        \* the task indexes in the order the tasks completed
    s_merged,       \* search_all_sources.results, before the filters
    s_out,          \* what search_all_sources returned
    q_kind,         \* /search: who the caller is (guest, free, premium)
    q_today,        \* date.today(), as a day number
    q_rows,         \* the caller's rows of the daily_search_usage table
    q_req,          \* /search: the requests in flight and their locals
    q_response,     \* /search: the response sent last
    q_db_failed,    \* whether a query of the usage table has failed (observed)
    q_performed,    \* searches performed for the caller, per day (observed)
    h_thread,       \* _search_query: the thread processed last (observed)
    h_descended,    \* whether its comments were requested (observed)
    h_page,         \* _fetch_forum_page: the page fetched last (observed)
    h_scored,       \* the texts the last step gave to calculate_relevance_score
    h_revs,         \* the reviews the last thread or page fetch returned
    h_searches,     \* search requests the Reddit client has issued (observed)
    h_discovers,    \* discovery requests the forum client has issued (observed)
    h_discovered,   \* what _discover_forum_urls returned (observed)
    h_fetched,      \* the URLs given to _fetch_forum_page, in order (observed)
    x_pc,           \* _load_reviews_smart: where the main thread is in its round
    x_round,        \* _load_reviews_smart.i
    x_buttons,      \* _expand_all_reviews_fast: how many buttons were found
    x_submitted,    \* how many click_button calls were submitted to the pool
    x_task,         \* the state of each button's future
    x_attempts,     \* click attempts issued per button in this round (observed)
    x_timed_out,    \* whether as_completed timed out in this round
    a_rows,         \* table price_alerts, in creation order (index = id)
    a_req,          \* the price-alert requests in flight
    a_status        \* the status code of the latest price-alert response

gvars == <<entry, pc, url, max_rounds, driver_made, quits, i, last_count,
           stable_rounds, seen, n_reads, n_clicks, n_expands, n_extract,
           last_click, stop_reason, exc, faults, loaded, page, all_reviews,
           result, response>>

cvars == <<product_name, identity, r_queries, r_threads, r_title, r_found, r_all, r_seen,
           r_requests, r_last, r_out, f_todo, f_urls>>

fvars == <<s_pc, s_request, s_slots, s_order, s_merged, s_out>>

qvars == <<q_kind, q_today, q_rows, q_req, q_response, q_db_failed, q_performed>>

ovars == <<fvars, qvars>>

hvars == <<h_thread, h_descended, h_page, h_scored, h_revs>>

nvars == <<h_searches, h_discovers, h_discovered, h_fetched>>

xvars == <<x_pc, x_round, x_buttons, x_submitted, x_task, x_attempts, x_timed_out>>

avars == <<a_rows, a_req, a_status>>

vars == <<gvars, cvars, ovars, hvars, nvars, xvars, avars>>

\* ------------------------------------------------------------------ bounds
MaxRounds == 3      \* largest max_clicks of a direct call
MaxCount == 2       \* largest loaded-item count the page reports
MaxItems == 2       \* most review elements on the page at extraction
MaxThreads == 2     \* most threads in one Reddit search result
MaxComments == 2    \* most top-level comments in one thread listing
MaxLinks == 2       \* most links on one forum search page
MaxSources == 2     \* most sources one search request names
MaxRequests == 2    \* most /search requests of the caller in flight at once
MaxDay == 1         \* days that pass after the first one
MaxSearches == 4    \* most searches followed
MaxButtons == 6     \* most "Read more" buttons found in one round
MaxAlerts == 2      \* most price alerts ever created
MaxCalls == 2       \* most price-alert requests in flight at once

\* ------------------------------------------------------- program constants
DefaultMaxClicks == 10      \* fetch_google_reviews(max_clicks=10)
StableLimit == 2            \* if stable_rounds >= 2: break
MinTextLen == 10            \* len(review_text) > 10
RawCap == 100               \* raw_reviews[:100]
ResponseCap == 50           \* validated_reviews[:50]
MinCommentLen == 50         \* len(comment_body) < 50
ScoreThreshold == 6         \* relevance_score < 0.6, in tenths
RedditContentCap == 2000    \* comment_body[:2000]
MinThreadComments == 3      \* num_comments < 3
MinQueryLen == 2            \* len(q.strip()) > 2
QueriesPerSite == 2         \* search_queries[:2]
UrlCap == 20                \* urls[:20]
PageCap == 15               \* urls_to_fetch[:15]
MinPageLen == 1000          \* len(text) < 1000
MinModelMentions == 2       \* text.lower().count(model) < 2
MinExcerptLen == 200        \* len(content) < 200
ForumTextCap == 2000        \* text[:2000]
ForumContentCap == 1500     \* content[:1500]
DefaultLimit == 20          \* SearchRequest.limit (default: 20)
MaxWorkers == 5             \* ThreadPoolExecutor(max_workers=5)
GUEST_USER_SEARCH_LIMIT == 1
GUEST_USER_RESULT_LIMIT == 10
FREE_REGISTERED_USER_DAILY_LIMIT == 3
FREE_REGISTERED_USER_RESULT_LIMIT == 10

\* ------------------------------------------------------------ small helpers
Min(a, b) == IF a < b THEN a ELSE b

Contains(s, t) ==
    \E k \in 0..(Len(s) - Len(t)) : SubSeq(s, k + 1, k + Len(t)) = t

Prefix(s, n) == SubSeq(s, 1, Min(Len(s), n))

Digits == {"0", "1", "2", "3", "4", "5", "6", "7", "8", "9"}

DigitValue(c) ==
    CASE c = "0" -> 0 [] c = "1" -> 1 [] c = "2" -> 2 [] c = "3" -> 3
      [] c = "4" -> 4 [] c = "5" -> 5 [] c = "6" -> 6 [] c = "7" -> 7
      [] c = "8" -> 8 [] c = "9" -> 9

\* ------------------------------------------------ URL validation (pure part)
\* A URL as urlparse sees it: whether it parses at all, its netloc as a
\* sequence of characters, and its query as a sequence of key/value pairs.
NetGoogle == <<"g", "o", "o", "g", "l", "e", ".", "c", "o", "m">>
NetOther == <<"s", "h", "o", "p", ".", "c", "o", "m">>
NetLookalike == <<"n", "o", "t", "g", "o", "o", "g", "l", "e", ".", "i", "o">>

Urls ==
    { [parses |-> TRUE, netloc |-> NetGoogle, query |-> <<<<"ibp", "oshop">>>>],
      [parses |-> TRUE, netloc |-> NetLookalike,
       query |-> <<<<"q", "tv">>, <<"udm", "28">>>>],
      [parses |-> TRUE, netloc |-> NetGoogle, query |-> <<<<"q", "tv">>>>],
      [parses |-> TRUE, netloc |-> NetGoogle, query |-> <<<<"prds", "">>>>],
      [parses |-> TRUE, netloc |-> NetOther, query |-> <<<<"prds", "x">>>>],
      [parses |-> FALSE, netloc |-> <<>>, query |-> <<>>] }

\* parse_qs with keep_blank_values=False: keys whose value is blank are dropped.
ParseQs(query) ==
    { query[k][1] : k \in { j \in 1..Len(query) : query[j][2] # "" } }

IsValidGoogleShoppingUrl(u) ==
    IF ~u.parses THEN FALSE
    ELSE IF ~Contains(u.netloc, <<"g", "o", "o", "g", "l", "e">>) THEN FALSE
    ELSE LET params == ParseQs(u.query)
         IN  "ibp" \in params \/ "prds" \in params \/ "udm" \in params

\* ------------------------------------------------ review extraction (pure part)
\* s repeated n times
RECURSIVE Repeat(_, _)
Repeat(s, n) == IF n = 0 THEN "" ELSE s \o Repeat(s, n - 1)

\* the text of a long, fully expanded review (2040 characters)
LongText == Repeat("lorem ipsum ", 170)

\* A review element of the page: whether its three mandatory fields can be
\* read, and the texts of its fields.
Items ==
    { [readable |-> TRUE, name |-> "Ann", rating_text |-> <<"5">>,
       text |-> "Great sound and battery", source_text |-> <<"Reviewed", "on", "ebay.com">>],
      [readable |-> TRUE, name |-> "", rating_text |-> <<"4", ".", "5">>,
       text |-> "Great sound and battery", source_text |-> <<>>],
      [readable |-> TRUE, name |-> "Cy", rating_text |-> <<"R", "a", "t", "e", "d">>,
       text |-> "Works fine after a month", source_text |-> <<>>],
      [readable |-> TRUE, name |-> "Di", rating_text |-> <<"3">>,
       text |-> "Too short!", source_text |-> <<>>],
      [readable |-> TRUE, name |-> "Eve", rating_text |-> <<"9", "/", "1", "0">>,
       text |-> LongText, source_text |-> <<>>],
      [readable |-> FALSE, name |-> "", rating_text |-> <<>>,
       text |-> "", source_text |-> <<>>] }

RECURSIVE BoundedSeqs(_, _)
BoundedSeqs(S, n) ==
    IF n = 0 THEN {<<>>}
    ELSE LET shorter == BoundedSeqs(S, n - 1)
         IN  shorter \cup { Append(s, x) : s \in { t \in shorter : Len(t) = n - 1 }, x \in S }

\* a page on which more reviews were loaded than the route passes on
FullPage ==
    [k \in 1..(RawCap + MaxItems) |->
        [readable |-> TRUE, name |-> "Ann", rating_text |-> <<"5">>,
         text |-> "Great sound and battery", source_text |-> <<"Reviewed", "on", "ebay.com">>]]

Pages == BoundedSeqs(Items, MaxItems) \cup {FullPage}

\* re.search(r'\d', rating_text): the first digit of the text, 0 when none
RECURSIVE FirstDigit(_)
FirstDigit(rt) ==
    IF rt = <<>> THEN 0
    ELSE IF Head(rt) \in Digits THEN DigitValue(Head(rt))
    ELSE FirstDigit(Tail(rt))

ParseRating(rating_text) ==
    IF rating_text = <<>> THEN 0 ELSE FirstDigit(rating_text)

\* source_text is a sequence of words; "Reviewed on ebay.com" -> "ebay.com"
RECURSIVE RemovePair(_, _)
RemovePair(s, pair) ==
    IF Len(s) < 2 THEN s
    ELSE IF SubSeq(s, 1, 2) = pair THEN RemovePair(SubSeq(s, 3, Len(s)), pair)
    ELSE <<Head(s)>> \o RemovePair(Tail(s), pair)

ParseSource(source_text) ==
    IF Contains(source_text, <<"Reviewed", "on">>)
    THEN RemovePair(source_text, <<"Reviewed", "on">>)
    ELSE <<"Google", "Shopping">>

\* a validity test that accepts a text of exactly the minimum length
IsValidReviewLoose(data) ==
    /\ data.text # ""
    /\ Len(data.text) >= MinTextLen
    /\ ParseRating(data.rating_text) > 0

\* the validity test of process_review
IsValidReview(data) ==
    /\ data.text # ""
    /\ Len(data.text) > MinTextLen
    /\ ParseRating(data.rating_text) > 0

\* the record process_review returns for a valid item
ProcessReview(data) ==
    [reviewer_name |-> IF data.name = "" THEN "Anonymous" ELSE data.name,
     rating |-> ParseRating(data.rating_text),
     text |-> data.text,
     source |-> ParseSource(data.source_text)]

IsReadable(r) == r.readable

\* review_data of _parse_reviews: the items whose fields could be read
ReviewData(elems) == SelectSeq(elems, IsReadable)

\* the reviews process_review accepts, in page order
ValidReviews(elems) ==
    LET kept == SelectSeq(ReviewData(elems), IsValidReview)
    IN  [k \in 1..Len(kept) |-> ProcessReview(kept[k])]

\* the orders in which as_completed may hand the futures' results over (a
\* list of equal results reads the same in every order)
Arrangements(s) ==
    IF \A a, b \in 1..Len(s) : s[a] = s[b] THEN {s}
    ELSE { [k \in 1..Len(s) |-> s[p[k]]] :
             p \in { q \in [1..Len(s) -> 1..Len(s)] :
                       \A a, b \in 1..Len(s) : a # b => q[a] # q[b] } }

\* --------------------------------------------------------------- exceptions
NoExc == [class |-> "none", msg |-> "none"]
Raise(class, msg) == [class |-> class, msg |-> msg]

\* a handler that catches only the ValueError of the URL check
FetchOuterCatchesValueErrorOnly(e) == e.class = "ValueError"

\* `except Exception as e` of fetch_google_reviews: every exception the body
\* can raise derives from Exception
FetchOuterCatches(e) ==
    e.class \in {"ValueError", "SessionNotCreatedException", "WebDriverException"}

\* a handler that catches only the wait's timeout
ClickHandlerCatchesTimeoutOnly(class) == class = "TimeoutException"

\* the bare `except:` of _click_more_reviews_fast (line 199)
ClickHandlerCatches(class) == class \in {"TimeoutException", "WebDriverException"}

\* the bare `except:` clauses of _expand_all_reviews_fast (lines 149-161)
ExpandHandlerCatches(class) == class \in {"TimeoutError", "WebDriverException"}

\* `except Exception` of _parse_reviews (line 271)
ParseHandlerCatches(class) == class \in {"WebDriverException"}

\* driver.quit() on the success path only
QuitOnlyOnSuccess == FALSE

\* `finally: driver.quit()` (lines 83-84) runs on every exit of the inner try
FinallyQuits == TRUE

NoResult == [success |-> FALSE, error |-> "unset", reviews |-> <<>>, total |-> 0]
Failure(e) == [success |-> FALSE, error |-> e.msg, reviews |-> <<>>, total |-> 0]
Success(revs) ==
    [success |-> TRUE, error |-> "none", reviews |-> revs, total |-> Len(revs)]

NoResponse == [status |-> 0]

\* ------------------------------------------------- _load_reviews_smart (pure)
\* a loop that runs one round too many
InRangeInclusive(k, m) == k <= m

\* `for i in range(max_rounds)`: is there a round with index k
InRange(k, m) == k < m

\* a counter that is not reset when the count changes
NextStableNoReset(count, last, stable) == IF count = last THEN stable + 1 ELSE stable

\* a counter for which a count of 0 never counts as unchanged
NextStableIgnoringEmpty(count, last, stable) ==
    IF count = last /\ count > 0 THEN stable + 1 ELSE 0

NextStable(count, last, stable) == IF count = last THEN stable + 1 ELSE 0

\* a stabilization test that waits one round longer
StabilizedLate(stable) == stable >= StableLimit + 1

Stabilized(stable) == stable >= StableLimit

\* the window of the latest count reads
Remember(window, count) ==
    LET w == Append(window, count)
    IN  IF Len(w) > StableLimit + 1 THEN Tail(w) ELSE w

\* ------------------------------------------------------- product identity
\* A title is a sequence of tokens; a token records its text, its lowercase
\* form, whether it is white space and whether it mixes letters and digits.
Tok(text, lower, mixed) == [text |-> text, lower |-> lower, space |-> FALSE, mixed |-> mixed]
SpaceTok == [text |-> " ", lower |-> " ", space |-> TRUE, mixed |-> FALSE]

Titles ==
    { <<>>,
      <<SpaceTok>>,
      <<Tok("Sony", "sony", FALSE), Tok("WH-1000XM5", "wh-1000xm5", TRUE)>>,
      <<Tok("Headphones", "headphones", FALSE)>>,
      <<Tok("The", "the", FALSE)>> }

\* the check without the strip: only the empty title counts as blank
IsBlankNoStrip(title) == title = <<>>

\* `not product_name or len(product_name.strip()) == 0`
IsBlank(title) == \A k \in 1..Len(title) : title[k].space

NoIdentity == [model |-> "", brand |-> "", edition |-> "", keywords |-> {}]

Stopwords == {"the", "a", "an", "for", "and"}

\* extract_product_identity: the model is the longest token mixing letters
\* and digits, the keywords are the lowercased, stopword-stripped tokens of
\* length >= 2
ExtractProductIdentity(title) ==
    LET mixed == { k \in 1..Len(title) : title[k].mixed }
        best == { k \in mixed : \A j \in mixed : Len(title[j].text) <= Len(title[k].text) }
    IN  [model |-> IF best = {} THEN "" ELSE title[CHOOSE k \in best : \A j \in best : k <= j].lower,
         brand |-> "",
         edition |-> "",
         keywords |-> { title[k].lower : k \in { j \in 1..Len(title) :
                                                   /\ ~title[j].space
                                                   /\ Len(title[j].text) >= 2
                                                   /\ title[j].lower \notin Stopwords } }]

\* ------------------------------------------------------------ RedditClient
\* lines 88-95: the intent-biased queries
RedditQueries(id) ==
    <<"title review">> \o
    (IF id.model # "" THEN <<"model review", "model worth it", "model problems">>
     ELSE <<>>)

\* A thread of a search listing: how its JSON is shaped, and what the
\* thread-level rules see in it.
ThreadKinds ==
    { [id |-> "t1", shape |-> "ok", rumor |-> FALSE, on_topic |-> TRUE, num_comments |-> 5],
      [id |-> "t2", shape |-> "ok", rumor |-> TRUE, on_topic |-> TRUE, num_comments |-> 9],
      [id |-> "t3", shape |-> "ok", rumor |-> FALSE, on_topic |-> TRUE, num_comments |-> 2],
      [id |-> "t4", shape |-> "null_title", rumor |-> FALSE, on_topic |-> TRUE, num_comments |-> 4],
      [id |-> "t5", shape |-> "not_dict", rumor |-> FALSE, on_topic |-> FALSE, num_comments |-> 0] }

\* A top-level comment of a thread listing: how its JSON is shaped, its
\* author, the length of its body, whether the body shows review intent and
\* how often each token occurs in the lowercased body.
CommentKinds ==
    { [id |-> "c1", shape |-> "ok", author |-> "ann", len |-> 120, intent |-> TRUE,
       counts |-> [wh_1000xm5 |-> 2, sony |-> 1, headphones |-> 1, xxx |-> 0]],
      [id |-> "c2", shape |-> "ok", author |-> "bob", len |-> 2500, intent |-> TRUE,
       counts |-> [wh_1000xm5 |-> 1, sony |-> 0, headphones |-> 0, xxx |-> 0]],
      [id |-> "c3", shape |-> "ok", author |-> "cy", len |-> 49, intent |-> TRUE,
       counts |-> [wh_1000xm5 |-> 2, sony |-> 2, headphones |-> 2, xxx |-> 0]],
      [id |-> "c4", shape |-> "ok", author |-> "[deleted]", len |-> 80, intent |-> FALSE,
       counts |-> [wh_1000xm5 |-> 1, sony |-> 1, headphones |-> 0, xxx |-> 0]],
      [id |-> "c5", shape |-> "not_dict", author |-> "", len |-> 0, intent |-> FALSE,
       counts |-> [wh_1000xm5 |-> 0, sony |-> 0, headphones |-> 0, xxx |-> 0]],
      [id |-> "c6", shape |-> "ok", author |-> "dee", len |-> 90, intent |-> FALSE,
       counts |-> [wh_1000xm5 |-> 2, sony |-> 2, headphones |-> 1, xxx |-> 0]] }

\* should_reject_thread: stock/rumor threads and threads off the product
ShouldRejectThread(t, id) == t.rumor \/ ~t.on_topic

\* has_review_intent
HasReviewIntent(c) == c.intent

TokenKey(tok) ==
    CASE tok = "wh-1000xm5" -> "wh_1000xm5"
      [] tok = "sony" -> "sony"
      [] tok = "headphones" -> "headphones"
      [] tok = "xxx" -> "xxx"
      [] OTHER -> "other"

\* text.lower().count(tok)
Count(x, tok) ==
    IF TokenKey(tok) \in DOMAIN x.counts THEN x.counts[TokenKey(tok)] ELSE 0

RECURSIVE Occurrences(_, _)
Occurrences(x, kws) ==
    IF kws = {} THEN 0
    ELSE LET kw == CHOOSE k \in kws : TRUE
         IN  Count(x, kw) + Occurrences(x, kws \ {kw})

\* weights of the three parts of the score, in tenths
CoverageWeight == 5
PhraseWeight == 3
DensityWeight == 2

\* calculate_relevance_score, in tenths: the fraction of the identity's
\* keywords present in the text, the presence of the model phrase, and the
\* keyword occurrences in the text's leading window, squashed into 0..10
CalculateRelevanceScore(x, id) ==
    LET present == { kw \in id.keywords : Count(x, kw) > 0 }
        coverage == IF id.keywords = {} THEN 0
                    ELSE (CoverageWeight * Cardinality(present)) \div Cardinality(id.keywords)
        phrase == IF id.model # "" /\ Count(x, id.model) > 0 THEN PhraseWeight ELSE 0
        density == Min(DensityWeight, Occurrences(x, id.keywords))
    IN  Min(10, coverage + phrase + density)

NoCounts == [wh_1000xm5 |-> 0, sony |-> 0, headphones |-> 0, xxx |-> 0]

NoThread == [id |-> "none", shape |-> "none", rumor |-> FALSE, on_topic |-> FALSE,
             num_comments |-> 0]

\* lines 232-248: the comment gets as far as calculate_relevance_score
CommentReachesScorer(c) ==
    /\ c.shape = "ok"
    /\ c.author \notin {"[deleted]", "AutoModerator", "None"}
    /\ c.len >= MinCommentLen
    /\ HasReviewIntent(c)

\* the comments of a listing that are given to calculate_relevance_score
ScoredComments(comments) ==
    { comments[k] : k \in { j \in 1..Len(comments) : CommentReachesScorer(comments[j]) } }

\* lines 232-279: the reply-level gate and the review built from a comment
AcceptsComment(c, id) ==
    /\ c.shape = "ok"
    /\ c.author \notin {"[deleted]", "AutoModerator", "None"}
    /\ c.len >= MinCommentLen
    /\ HasReviewIntent(c)
    /\ CalculateRelevanceScore(c, id) >= ScoreThreshold

RedditReview(t, c, id) ==
    [external_review_id |-> <<"reddit", t.id, c.id>>,
     rating |-> "None",
     content_len |-> Min(c.len, RedditContentCap),
     source |-> "Reddit",
     relevance_score |-> CalculateRelevanceScore(c, id)]

\* the reviews _fetch_thread_reviews builds from a comment listing
RECURSIVE ThreadReviews(_, _, _)
ThreadReviews(t, comments, id) ==
    IF comments = <<>> THEN <<>>
    ELSE (IF AcceptsComment(Head(comments), id)
          THEN <<RedditReview(t, Head(comments), id)>> ELSE <<>>)
         \o ThreadReviews(t, Tail(comments), id)

\* what _fetch_thread_reviews can do with a thread: the reviews it returns and
\* the comments it scores, for every comment listing the request may deliver
ListingOutcomes(t, id) ==
    { [reviews |-> ThreadReviews(t, comments, id), scored |-> ScoredComments(comments)] :
        comments \in BoundedSeqs(CommentKinds, MaxComments) }

ListingReviews(t, id) == { o.reviews : o \in ListingOutcomes(t, id) }

\* a merge that appends every review, seen before or not
RECURSIVE MergeAll(_, _)
MergeAll(acc, revs) ==
    IF revs = <<>> THEN acc
    ELSE MergeAll([all |-> Append(acc.all, Head(revs)),
                   seen |-> acc.seen \cup {Head(revs).external_review_id}], Tail(revs))

\* lines 105-109 (and forums.py 67-71): append the reviews not seen before
RECURSIVE MergeNew(_, _)
MergeNew(acc, revs) ==
    IF revs = <<>> THEN acc
    ELSE LET r == Head(revs)
         IN  IF r.external_review_id \notin acc.seen
             THEN MergeNew([all |-> Append(acc.all, r),
                            seen |-> acc.seen \cup {r.external_review_id}], Tail(revs))
             ELSE MergeNew(acc, Tail(revs))

\* except clauses: each of them catches Exception
HttpFailures == {"TimeoutException", "HTTPError", "JSONDecodeError", "AttributeError"}
AllFailures == HttpFailures \cup {"TypeError", "UnboundLocalError"}

\* reddit.py lines 191-196
SearchQueryCatches(class) == class \in AllFailures
\* reddit.py line 184
ThreadHandlerCatches(class) == class \in AllFailures
\* reddit.py lines 283-288
FetchThreadCatches(class) == class \in AllFailures
\* reddit.py line 111
SearchProductCatches(class) == class \in AllFailures

\* ------------------------------------------------------------- ForumClient
\* FORUM_SITES (lines 23-27)
ForumSites == <<"head-fi.org", "avforums.com", "forums.whathifi.com">>

\* len(q.strip()) of a query made of the given words joined by blanks
RECURSIVE JoinedLen(_)
JoinedLen(words) ==
    IF words = <<>> THEN 0
    ELSE Len(Head(words)) + (IF Len(words) > 1 THEN 1 ELSE 0) + JoinedLen(Tail(words))

StrippedLen(words) == JoinedLen(SelectSeq(words, LAMBDA w : w # ""))

\* lines 92-98: the search queries of _discover_forum_urls, as word lists
ForumQueries(title, id) ==
    SelectSeq(<< [k \in 1..Len(title) |-> title[k].text],
                 <<id.model, id.edition>>,
                 <<id.brand, id.model>> >>,
              LAMBDA q : StrippedLen(q) > MinQueryLen)

\* lines 100-101: every site with the first two queries
RECURSIVE DiscoveryPlan(_, _)
DiscoveryPlan(sites, queries) ==
    IF sites = <<>> THEN <<>>
    ELSE [k \in 1..Len(Prefix(queries, QueriesPerSite)) |->
            [site |-> Head(sites), query |-> queries[k]]]
         \o DiscoveryPlan(Tail(sites), queries)

\* A link of a search page: its href as path segments, absolute or not.
Hrefs ==
    { [absolute |-> FALSE, path |-> <<"thread", "1">>],
      [absolute |-> TRUE, path |-> <<"f.org", "topic", "2">>],
      [absolute |-> FALSE, path |-> <<"about">>] }

\* a search page with more thread links than _discover_forum_urls keeps
LongListing ==
    [k \in 1..(UrlCap + 1) |-> [absolute |-> FALSE, path |-> <<"thread", ToString(k)>>]]

ThreadMarkers == {"thread", "discussion", "topic", "post", "posts"}

\* lines 115-117: "/thread/", "/discussion/", ... occurs in the href
IsThreadLike(h) ==
    \E k \in 1..(Len(h.path) - 1) :
        h.path[k] \in ThreadMarkers /\ (k > 1 \/ ~h.absolute)

\* line 118
FullUrl(site, h) == IF h.absolute THEN h.path ELSE <<site>> \o h.path

\* lines 112-120: the thread-like links not yet in urls are appended
RECURSIVE AddLinks(_, _, _)
AddLinks(urls, site, links) ==
    IF links = <<>> THEN urls
    ELSE LET h == Head(links)
             u == FullUrl(site, h)
         IN  IF IsThreadLike(h) /\ ~(\E k \in 1..Len(urls) : urls[k] = u)
             THEN AddLinks(Append(urls, u), site, Tail(links))
             ELSE AddLinks(urls, site, Tail(links))

\* A fetched page: the length of its text, how often each token occurs in the
\* lowercased text, whether an ownership or a rejection phrase occurs, and the
\* length of its post paragraphs.
PageKinds ==
    { [name |-> "review", chars |-> 1800, own |-> TRUE, rej |-> FALSE, paragraphs |-> 1700,
       counts |-> [wh_1000xm5 |-> 3, sony |-> 2, headphones |-> 2, xxx |-> 0]],
      [name |-> "stub", chars |-> 900, own |-> TRUE, rej |-> FALSE, paragraphs |-> 0,
       counts |-> [wh_1000xm5 |-> 3, sony |-> 2, headphones |-> 0, xxx |-> 0]],
      [name |-> "aside", chars |-> 2600, own |-> TRUE, rej |-> FALSE, paragraphs |-> 100,
       counts |-> [wh_1000xm5 |-> 1, sony |-> 4, headphones |-> 0, xxx |-> 0]],
      [name |-> "news", chars |-> 2600, own |-> TRUE, rej |-> TRUE, paragraphs |-> 100,
       counts |-> [wh_1000xm5 |-> 4, sony |-> 4, headphones |-> 0, xxx |-> 2]],
      [name |-> "filler", chars |-> 2600, own |-> TRUE, rej |-> FALSE, paragraphs |-> 100,
       counts |-> [wh_1000xm5 |-> 0, sony |-> 0, headphones |-> 3, xxx |-> 2]] }

NoPage == [name |-> "none", chars |-> 0, own |-> FALSE, rej |-> FALSE, paragraphs |-> 0,
           counts |-> NoCounts]

\* lines 165-169: check 2, the mention counts
PassesMentions(pg, id) ==
    /\ Cardinality({ kw \in id.keywords : kw # "" /\ Count(pg, kw) > 0 }) >= 1
    /\ Count(pg, IF id.model = "" THEN "xxx" ELSE id.model) >= MinModelMentions

\* the scorer is called before the rejection phrases are looked for
PageReachesScorerBeforeRejection(pg, id) ==
    /\ pg.chars >= MinPageLen
    /\ PassesMentions(pg, id)
    /\ pg.own

\* lines 160-193: the page gets as far as calculate_relevance_score
PageReachesScorer(pg, id) ==
    /\ pg.chars >= MinPageLen
    /\ PassesMentions(pg, id)
    /\ pg.own
    /\ ~pg.rej

\* the gate without check 4, the rejection phrases
ForumGateWithoutRejection(pg, id) ==
    /\ pg.chars >= MinPageLen
    /\ PassesMentions(pg, id)
    /\ pg.own
    /\ CalculateRelevanceScore(pg, id) >= ScoreThreshold

\* lines 160-201: the page-level gate
ForumGate(pg, id) ==
    /\ pg.chars >= MinPageLen
    /\ Cardinality({ kw \in id.keywords : kw # "" /\ Count(pg, kw) > 0 }) >= 1
    /\ Count(pg, IF id.model = "" THEN "xxx" ELSE id.model) >= MinModelMentions
    /\ pg.own
    /\ ~pg.rej
    /\ CalculateRelevanceScore(pg, id) >= ScoreThreshold

\* lines 203-228: the excerpt and the review of an accepted page
ForumContentLen(pg) ==
    Min(IF pg.paragraphs < MinExcerptLen THEN Min(pg.chars, ForumTextCap) ELSE pg.paragraphs,
        ForumContentCap)

ForumReview(u, pg, id) ==
    [external_review_id |-> <<"forum", u, pg.name>>,
     rating |-> "None",
     content_len |-> ForumContentLen(pg),
     source |-> "Forums",
     relevance_score |-> CalculateRelevanceScore(pg, id)]

\* what _fetch_forum_page returns for a page
PageReviews(u, pg, id) ==
    IF ForumGate(pg, id) THEN <<ForumReview(u, pg, id)>> ELSE <<>>

\* forums.py line 122
DiscoverHandlerCatches(class) == class \in AllFailures
\* forums.py lines 230-238
FetchPageCatches(class) == class \in AllFailures
\* forums.py lines 72 and 79
ForumSearchCatches(class) == class \in AllFailures

NotReturned == [returned |-> FALSE, value |-> <<>>]
Returned(list) == [returned |-> TRUE, value |-> list]

\* ----------------------------------------------------------- SearchService
\* SearchRequest; a min_rating or max_price of 0 stands for None
NoRequest == [sources |-> <<>>, limit |-> 0, min_rating |-> 0, max_price |-> 0]

\* the sources a request may name; _search_source knows the first two
SourceNames == {"amazon", "walmart", "ebay"}
KnownSources == {"amazon", "walmart", "google_shopping"}

\* the request's filters: limit, min_rating, max_price
Filters ==
    { [limit |-> DefaultLimit, min_rating |-> 0, max_price |-> 0],
      [limit |-> 1, min_rating |-> 0, max_price |-> 0],
      [limit |-> DefaultLimit, min_rating |-> 4, max_price |-> 0],
      [limit |-> DefaultLimit, min_rating |-> 0, max_price |-> 50] }

Requests ==
    { [sources |-> srcs, limit |-> f.limit, min_rating |-> f.min_rating,
       max_price |-> f.max_price] :
        srcs \in BoundedSeqs(SourceNames, MaxSources), f \in Filters }

\* A product of a source's result list; a rating of 0 stands for None.
Product(source, k) ==
    [source |-> source, source_id |-> k,
     rating |-> IF k = 1 THEN 4 ELSE 0,
     price |-> IF k = 1 THEN 30 ELSE 90]

\* the result lists a source's client (or the cache) may deliver
ResultLists(source) ==
    { <<>>, <<Product(source, 1)>>, <<Product(source, 1), Product(source, 2)>> }

\* what can go wrong in a source task: the cache lookup, the client's search,
\* _save_product (which re-raises), the cache write
SourceFailures == {"cache_get", "client_search", "save_product", "cache_set"}

\* _search_source, lines 112-114: except Exception -> []
SearchSourceCatches(failure) == failure \in SourceFailures

\* the outcome of a source task as asyncio.gather stores it
Pending == [state |-> "pending", value |-> <<>>, failed |-> FALSE]
TaskReturned(list, failed) == [state |-> "returned", value |-> list, failed |-> failed]
TaskRaised == [state |-> "raised", value |-> <<>>, failed |-> TRUE]

\* source_results ordered by task completion
InCompletionOrder(slots, order) == [k \in 1..Len(order) |-> slots[order[k]]]

\* line 46, asyncio.gather(*tasks, return_exceptions=True): the outcomes in
\* the order of the tasks, whatever the order of completion
GatherResults(slots, order) == slots

\* results = source_result
ReplaceResults(results, value) == value

\* line 54: results.extend(source_result)
ExtendResults(results, value) == results \o value

\* lines 49-54: the aggregation loop
RECURSIVE AggregateResults(_, _)
AggregateResults(results, source_results) ==
    IF source_results = <<>> THEN results
    ELSE LET r == Head(source_results)
         IN  IF r.state = "raised" THEN AggregateResults(results, Tail(source_results))
             ELSE IF r.value # <<>>
             THEN AggregateResults(ExtendResults(results, r.value), Tail(source_results))
             ELSE AggregateResults(results, Tail(source_results))

\* _apply_filters, lines 150-172
ApplyFilters(results, request) ==
    LET PassesRating(p) == p.rating # 0 /\ p.rating >= request.min_rating
        PassesPrice(p) == p.price # 0 /\ p.price <= request.max_price
        rated == IF request.min_rating # 0 THEN SelectSeq(results, PassesRating) ELSE results
        priced == IF request.max_price # 0 THEN SelectSeq(rated, PassesPrice) ELSE rated
    IN  Prefix(priced, request.limit)

\* ------------------------------------------------------ SearchLimitService
Kinds == {"guest", "free", "premium"}

\* the numbers of products search_all_sources may find
ResultCounts == {4, 25}

\* a response: its status and the number of products it carries
NoResponse403 == [status |-> 403, results |-> 0]
NoAnswer == [status |-> 0, results |-> 0]

\* a request slot: where the request is, whether it carries X-Session-Id,
\* the route's locals,
\* and the pending change of increment_search_count
NothingPending == [op |-> "none", row |-> 0, date |-> 0, count |-> 0]

IdleRequest ==
    [pc |-> "idle", session |-> FALSE, remaining |-> 0, results |-> 0,
     pending |-> NothingPending]

\* user_id is set for a registered caller
HasUserId(kind) == kind \in {"free", "premium"}

\* the rows the usage query selects: the caller's rows of the day
RowsOf(rows, day) == { k \in 1..Len(rows) : rows[k].date = day }

\* check_search_access lines 102-105: on error, allow access (fail open)
GrantOnError == [has_access |-> TRUE, remaining |-> -1]

\* check_search_access, lines 56-100, for a caller without premium plan
\* whose queries did not fail: `found` are the usage rows of today
CheckUsage(kind, session, found, rows) ==
    LET limit == IF HasUserId(kind) THEN FREE_REGISTERED_USER_DAILY_LIMIT
                 ELSE GUEST_USER_SEARCH_LIMIT
        used == IF found = {} THEN 0 ELSE rows[CHOOSE k \in found : TRUE].count
    IN  IF ~HasUserId(kind) /\ ~session
        THEN [has_access |-> TRUE, remaining |-> GUEST_USER_SEARCH_LIMIT]
        ELSE IF Cardinality(found) > 1 THEN GrantOnError
        ELSE IF found # {} /\ used >= limit THEN [has_access |-> FALSE, remaining |-> 0]
        ELSE [has_access |-> TRUE, remaining |-> limit - used]

\* get_result_limit, lines 176-196
GetResultLimit(is_premium, is_registered) ==
    IF is_premium THEN -1
    ELSE IF is_registered THEN FREE_REGISTERED_USER_RESULT_LIMIT
    ELSE GUEST_USER_RESULT_LIMIT

\* search.py lines 92-118: the response of a request that was searched
SearchResponse(kind, req) ==
    LET is_premium == HasUserId(kind) /\ req.remaining = -1
        result_limit == GetResultLimit(is_premium, HasUserId(kind))
    IN  [status |-> 200,
         results |-> IF result_limit > 0 /\ req.results > result_limit
                     THEN result_limit ELSE req.results]

\* ---------------------------------------------- price alerts: the data
\* get_optional_user gives a Profile or None; a Profile has an email
NoUser == "anonymous"
Profiles == {"u1"}
ProfileEmail(u) == "u1@x"

\* CreatePriceAlertRequest.email is optional
NoEmail == ""
RequestEmails == {NoEmail, "g@x"}
ProductIds == {"p1", "p2"}

\* UpdatePriceAlertRequest: both fields are optional (the empty set is None)
PriceUpdates == {{}, {20}}
ActiveUpdates == {{}, {TRUE}, {FALSE}}

\* a row of price_alerts; is_active is not given by create_price_alert and
\* takes the column default, true
Alert(u, p, e, t) ==
    [present |-> TRUE, user_id |-> u, product_id |-> p, email |-> e,
     target_price |-> t, is_active |-> TRUE]

\* a deleted row
Gone ==
    [present |-> FALSE, user_id |-> NoUser, product_id |-> "", email |-> NoEmail,
     target_price |-> 0, is_active |-> FALSE]

IdleCall ==
    [op |-> "none", user |-> NoUser, id |-> 0, product_id |-> "",
     email |-> NoEmail, target_price |-> {}, is_active |-> {}]

\* ------------------------------------------------------------------- Init
Init ==
    /\ entry = "none"
    /\ pc = "idle"
    /\ url = [parses |-> FALSE, netloc |-> <<>>, query |-> <<>>]
    /\ max_rounds = 0
    /\ driver_made = 0
    /\ quits = 0
    /\ i = 0
    /\ last_count = 0
    /\ stable_rounds = 0
    /\ seen = <<0>>
    /\ n_reads = 0
    /\ n_clicks = 0
    /\ n_expands = 0
    /\ n_extract = 0
    /\ last_click = "none"
    /\ stop_reason = "none"
    /\ exc = NoExc
    /\ faults = {}
    /\ loaded = FALSE
    /\ page = <<>>
    /\ all_reviews = <<>>
    /\ result = NoResult
    /\ response = NoResponse
    /\ product_name = <<>>
    /\ identity = NoIdentity
    /\ r_queries = <<>>
    /\ r_threads = <<>>
    /\ r_title = "unbound"
    /\ r_found = <<>>
    /\ r_all = <<>>
    /\ r_seen = {}
    /\ r_requests = 0
    /\ r_last = "none"
    /\ r_out = NotReturned
    /\ f_todo = <<>>
    /\ f_urls = <<>>
    /\ s_pc = "idle"
    /\ s_request = NoRequest
    /\ s_slots = <<>>
    /\ s_order = <<>>
    /\ s_merged = <<>>
    /\ s_out = NotReturned
    /\ q_kind = "none"
    /\ q_today = 0
    /\ q_rows = <<>>
    /\ q_req = [r \in 1..MaxRequests |-> IdleRequest]
    /\ q_response = NoAnswer
    /\ q_db_failed = FALSE
    /\ q_performed = [d \in 0..MaxDay |-> 0]
    /\ h_thread = NoThread
    /\ h_descended = FALSE
    /\ h_page = NoPage
    /\ h_scored = {}
    /\ h_revs = <<>>
    /\ h_searches = 0
    /\ h_discovers = 0
    /\ h_discovered = <<>>
    /\ h_fetched = <<>>
    /\ x_pc = "idle"
    /\ x_round = 0
    /\ x_buttons = 0
    /\ x_submitted = 0
    /\ x_task = [b \in 1..MaxButtons |-> "none"]
    /\ x_attempts = [b \in 1..MaxButtons |-> 0]
    /\ x_timed_out = FALSE
    /\ a_rows = <<>>
    /\ a_req = [r \in 1..MaxCalls |-> IdleCall]
    /\ a_status = 0

loopvars == <<i, last_count, stable_rounds, seen, last_click, stop_reason>>
counters == <<n_reads, n_clicks, n_expands, n_extract>>

\* ------------------------------------------------- fetch_google_reviews
\* A direct call fetch_google_reviews(url, name, max_clicks).
FetchCall ==
    /\ UNCHANGED <<ovars, hvars, nvars, xvars, avars>>
    /\ pc = "idle"
    /\ \E u \in Urls, m \in 0..MaxRounds :
         /\ url' = u
         /\ max_rounds' = m
    /\ entry' = "direct"
    /\ pc' = "validate"
    /\ UNCHANGED <<driver_made, quits, loopvars, counters, exc, faults,
                   loaded, page, all_reviews, result, response>>
    /\ UNCHANGED cvars

\* An exception reaching the outer `except Exception` of fetch_google_reviews.
OuterExcept(e) ==
    IF FetchOuterCatches(e)
    THEN /\ result' = Failure(e)
         /\ pc' = "returned"
    ELSE /\ result' = NoResult
         /\ pc' = "raised"

\* lines 45-46: URL validation
Validate ==
    /\ UNCHANGED <<ovars, hvars, nvars, xvars, avars>>
    /\ pc = "validate"
    /\ IF IsValidGoogleShoppingUrl(url)
       THEN /\ pc' = "construct"
            /\ UNCHANGED result
       ELSE OuterExcept(Raise("ValueError", "Invalid Google Shopping URL"))
    /\ UNCHANGED <<entry, url, max_rounds, driver_made, quits, loopvars,
                   counters, exc, faults, loaded, page, all_reviews, response>>
    /\ UNCHANGED cvars

\* lines 49-59: the browser session is constructed, or never establishes
Construct ==
    /\ UNCHANGED <<ovars, hvars, nvars, xvars, avars>>
    /\ pc = "construct"
    /\ \/ /\ driver_made' = driver_made + 1
          /\ pc' = "get"
          /\ UNCHANGED result
       \/ /\ OuterExcept(Raise("SessionNotCreatedException", "session not created"))
          /\ UNCHANGED driver_made
    /\ UNCHANGED <<entry, url, max_rounds, quits, loopvars, counters, exc,
                   faults, loaded, page, all_reviews, response>>
    /\ UNCHANGED cvars

\* Where `for i in range(max_rounds)` goes for index k: the next round, or
\* past the loop to the final extraction.
EnterRound(k) ==
    /\ i' = k
    /\ IF InRange(k, max_rounds)
       THEN /\ pc' = "expand"
            /\ UNCHANGED stop_reason
       ELSE /\ pc' = "parse"
            /\ stop_reason' = "ceiling"

\* An exception leaving the inner try block (lines 61-84).
InnerRaise(e) ==
    IF FinallyQuits
    THEN /\ exc' = e
         /\ pc' = "quit"
         /\ UNCHANGED result
    ELSE /\ OuterExcept(e)
         /\ UNCHANGED exc

\* lines 63-69: driver.get(url), then _load_reviews_smart is entered
Get ==
    /\ UNCHANGED <<ovars, hvars, nvars, xvars, avars>>
    /\ pc = "get"
    /\ \/ /\ loaded' = TRUE
          /\ EnterRound(0)
          /\ UNCHANGED <<exc, result, faults>>
       \/ /\ InnerRaise(Raise("WebDriverException", "page load failed"))
          /\ faults' = faults \cup {"get"}
          /\ UNCHANGED <<loaded, i, stop_reason>>
    /\ UNCHANGED <<entry, url, max_rounds, driver_made, quits, last_count,
                   stable_rounds, seen, last_click, counters, page,
                   all_reviews, response>>
    /\ UNCHANGED cvars

\* line 102: _expand_all_reviews_fast; finding the controls, a click or the
\* wait for the workers may raise
Expand ==
    /\ UNCHANGED <<ovars, hvars, nvars, xvars, avars>>
    /\ pc = "expand"
    /\ n_expands' = n_expands + 1
    /\ last_click' = "none"
    /\ \/ /\ pc' = "count"
          /\ UNCHANGED <<exc, result, faults>>
       \/ \E class \in {"TimeoutError", "WebDriverException"} :
            /\ faults' = faults \cup {"expand"}
            /\ IF ExpandHandlerCatches(class)
               THEN /\ pc' = "count"
                    /\ UNCHANGED <<exc, result>>
               ELSE InnerRaise(Raise(class, "expand failed"))
    /\ UNCHANGED <<entry, url, max_rounds, driver_made, quits, i, last_count,
                   stable_rounds, seen, stop_reason, n_reads, n_clicks,
                   n_extract, loaded, page, all_reviews, response>>
    /\ UNCHANGED cvars

\* lines 106-120: the count read and the stabilization test
CountRead ==
    /\ UNCHANGED <<ovars, hvars, nvars, xvars, avars>>
    /\ pc = "count"
    /\ n_reads' = n_reads + 1
    /\ \/ \E count \in 0..MaxCount :
            LET stable == NextStable(count, last_count, stable_rounds) IN
            /\ stable_rounds' = stable
            /\ seen' = Remember(seen, count)
            /\ IF Stabilized(stable)
               THEN /\ stop_reason' = "stabilized"
                    /\ pc' = "parse"
                    /\ UNCHANGED last_count
               ELSE /\ last_count' = count
                    /\ pc' = "click"
                    /\ UNCHANGED stop_reason
            /\ UNCHANGED <<exc, result, faults>>
       \/ /\ InnerRaise(Raise("WebDriverException", "count read failed"))
          /\ faults' = faults \cup {"count"}
          /\ UNCHANGED <<stable_rounds, seen, stop_reason, last_count>>
    /\ UNCHANGED <<entry, url, max_rounds, driver_made, quits, i, last_click,
                   n_clicks, n_expands, n_extract, loaded, page, all_reviews,
                   response>>
    /\ UNCHANGED cvars

\* line 123 with a _click_more_reviews_fast that returned False: the loop is
\* left ("No more reviews button")
ClickReturnedFalse ==
    /\ stop_reason' = "no_control"
    /\ pc' = "parse"
    /\ UNCHANGED <<i, exc, result>>

\* lines 123-127 and 189-200: _click_more_reviews_fast, then the next round
Click ==
    /\ UNCHANGED <<ovars, hvars, nvars, xvars, avars>>
    /\ pc = "click"
    /\ n_clicks' = n_clicks + 1
    /\ \/ /\ last_click' = "clicked"
          /\ EnterRound(i + 1)
          /\ UNCHANGED <<exc, result, faults>>
       \/ /\ last_click' = "absent"
          /\ UNCHANGED faults
          /\ IF ClickHandlerCatches("TimeoutException")
             THEN ClickReturnedFalse
             ELSE /\ InnerRaise(Raise("TimeoutException", "no load-more control"))
                  /\ UNCHANGED <<i, stop_reason>>
       \/ /\ last_click' = "raised"
          /\ faults' = faults \cup {"click"}
          /\ IF ClickHandlerCatches("WebDriverException")
             THEN ClickReturnedFalse
             ELSE /\ InnerRaise(Raise("WebDriverException", "click failed"))
                  /\ UNCHANGED <<i, stop_reason>>
    /\ UNCHANGED <<entry, url, max_rounds, driver_made, quits, last_count,
                   stable_rounds, seen, n_reads, n_expands, n_extract, loaded,
                   page, all_reviews, response>>
    /\ UNCHANGED cvars

\* lines 129-130 and 202-273: _parse_reviews, and _load_reviews_smart returns
\* (its locals are gone afterwards)
Parse ==
    /\ UNCHANGED <<ovars, hvars, nvars, xvars, avars>>
    /\ pc = "parse"
    /\ n_extract' = n_extract + 1
    /\ i' = 0
    /\ last_count' = 0
    /\ stable_rounds' = 0
    /\ seen' = <<0>>
    /\ \/ \E elems \in Pages :
            /\ page' = elems
            /\ all_reviews' \in Arrangements(ValidReviews(elems))
            /\ pc' = "quit"
            /\ UNCHANGED <<exc, result, faults>>
       \/ /\ page' = <<>>
          /\ all_reviews' = <<>>
          /\ faults' = faults \cup {"parse"}
          /\ IF ParseHandlerCatches("WebDriverException")
             THEN /\ pc' = "quit"
                  /\ UNCHANGED <<exc, result>>
             ELSE InnerRaise(Raise("WebDriverException", "extraction failed"))
    /\ UNCHANGED <<entry, url, max_rounds, driver_made, quits, last_click,
                   stop_reason, n_reads, n_clicks, n_expands, loaded, response>>
    /\ UNCHANGED cvars

\* lines 75-92: the `finally: driver.quit()`, then the return or the handler
Quit ==
    /\ UNCHANGED <<ovars, hvars, nvars, xvars, avars>>
    /\ pc = "quit"
    /\ quits' = quits + 1
    /\ \/ /\ UNCHANGED faults
          /\ IF exc = NoExc
             THEN /\ result' = Success(all_reviews)
                  /\ pc' = "returned"
             ELSE OuterExcept(exc)
       \/ /\ faults' = faults \cup {"quit"}
          /\ OuterExcept(Raise("WebDriverException", "quit failed"))
    /\ UNCHANGED <<entry, url, max_rounds, driver_made, loopvars, counters,
                   exc, loaded, page, all_reviews, response>>
    /\ UNCHANGED cvars

\* ------------------------------------------------- POST /reviews/google
RECURSIVE SumRatings(_)
SumRatings(revs) ==
    IF revs = <<>> THEN 0 ELSE Head(revs).rating + SumRatings(Tail(revs))

\* lines 435-448: sentiment from the average rating (sum / n against the
\* thresholds 4.5, 4.0, 3.0, 2.0, compared without division)
Sentiment(revs) ==
    LET rated == SelectSeq(revs, LAMBDA r : r.rating # 0)
        n == Len(rated)
        total == SumRatings(rated)
    IN  IF n = 0 THEN "very_negative"
        ELSE IF 2 * total >= 9 * n THEN "very_positive"
        ELSE IF total >= 4 * n THEN "positive"
        ELSE IF total >= 3 * n THEN "neutral"
        ELSE IF total >= 2 * n THEN "negative"
        ELSE "very_negative"

\* line 423: the route's basic validation
HasValidText(r) == r.text # "" /\ Len(r.text) > MinTextLen

\* a response built from all the scraped reviews
GoogleResponseUncapped(scrape) ==
    LET validated == SelectSeq(scrape.reviews, HasValidText)
    IN  [status |-> 200,
         success |-> TRUE,
         sentiment |-> Sentiment(validated),
         reviews |-> validated,
         total_found |-> Len(validated),
         raw_count |-> Len(scrape.reviews),
         filtered_count |-> Len(scrape.reviews) - Len(validated)]

\* lines 402-494: the response built from a successful scrape
GoogleResponse(scrape) ==
    LET raw == Prefix(scrape.reviews, RawCap)
        validated == SelectSeq(raw, HasValidText)
    IN  [status |-> 200,
         success |-> TRUE,
         sentiment |-> Sentiment(validated),
         reviews |-> Prefix(validated, ResponseCap),
         total_found |-> Len(validated),
         raw_count |-> Len(raw),
         filtered_count |-> Len(raw) - Len(validated)]

HttpError(code, detail) == [status |-> code, detail |-> detail]

\* lines 366-392: the request body is checked and the scraper is called with
\* its default max_clicks
RouteCall ==
    /\ UNCHANGED <<ovars, hvars, nvars, xvars, avars>>
    /\ pc = "idle"
    /\ entry' = "route"
    /\ \E name \in {"", "Sony WH-1000XM5"}, given \in BOOLEAN, u \in Urls :
         IF name = ""
         THEN /\ response' = HttpError(400, "product_name is required")
              /\ pc' = "responded"
              /\ UNCHANGED <<url, max_rounds>>
         ELSE IF ~given
         THEN /\ response' = HttpError(400, "google_shopping_url is required")
              /\ pc' = "responded"
              /\ UNCHANGED <<url, max_rounds>>
         ELSE /\ url' = u
              /\ max_rounds' = DefaultMaxClicks
              /\ pc' = "validate"
              /\ UNCHANGED response
    /\ UNCHANGED <<driver_made, quits, loopvars, counters, exc, faults,
                   loaded, page, all_reviews, result>>
    /\ UNCHANGED cvars

\* lines 394-502: the scrape result is turned into the response
RouteRespond ==
    /\ UNCHANGED <<ovars, hvars, nvars, xvars, avars>>
    /\ entry = "route"
    /\ pc \in {"returned", "raised"}
    /\ response' =
         IF pc = "raised" THEN HttpError(500, "Failed to fetch Google reviews")
         ELSE IF ~result.success
         THEN HttpError(400, "Failed to scrape Google Shopping")
         ELSE GoogleResponse(result)
    /\ pc' = "responded"
    /\ UNCHANGED <<entry, url, max_rounds, driver_made, quits, loopvars,
                   counters, exc, faults, loaded, page, all_reviews, result>>
    /\ UNCHANGED cvars

\* ------------------------------------------------ RedditClient.search_product
\* lines 99-116: the loop goes on to the next query, or the list is returned
NextQuery(all) ==
    /\ r_queries' = Tail(r_queries)
    /\ r_threads' = <<>>
    /\ r_found' = <<>>
    /\ IF Tail(r_queries) = <<>>
       THEN /\ pc' = "done"
            /\ r_out' = Returned(all)
       ELSE /\ pc' = "r_search"
            /\ UNCHANGED r_out

\* An exception inside the try block of _search_query (lines 129-196): the
\* query yields [], or the exception reaches search_product's handler.
QueryFailed(class) ==
    IF SearchQueryCatches(class) \/ SearchProductCatches(class)
    THEN /\ NextQuery(r_all)
         /\ UNCHANGED <<r_all, r_seen>>
    ELSE /\ pc' = "raised"
         /\ UNCHANGED <<r_queries, r_threads, r_found, r_all, r_seen, r_out>>

\* lines 77-97
RedditCall ==
    /\ UNCHANGED <<ovars, hvars, nvars, xvars, avars>>
    /\ pc = "idle"
    /\ entry' = "reddit"
    /\ \E title \in Titles :
         /\ product_name' = title
         /\ IF IsBlank(title)
            THEN /\ r_out' = Returned(<<>>)
                 /\ pc' = "done"
                 /\ UNCHANGED <<identity, r_queries>>
            ELSE /\ identity' = ExtractProductIdentity(title)
                 /\ r_queries' = RedditQueries(identity')
                 /\ pc' = "r_search"
                 /\ UNCHANGED r_out
    /\ UNCHANGED <<r_threads, r_title, r_found, r_all, r_seen, r_requests,
                   r_last, f_todo, f_urls>>
    /\ UNCHANGED <<url, max_rounds, driver_made, quits, loopvars, counters,
                   exc, faults, loaded, page, all_reviews, result, response>>

\* lines 129-146: the search request of one query
RedditSearch ==
    /\ UNCHANGED <<ovars, hvars, xvars, avars>>
    /\ pc = "r_search"
    /\ r_requests' = r_requests + 1
    /\ h_searches' = h_searches + 1
    /\ UNCHANGED <<h_discovers, h_discovered, h_fetched>>
    /\ \/ \E threads \in BoundedSeqs(ThreadKinds, MaxThreads) :
            /\ r_last' = "ok"
            /\ r_title' = "unbound"
            /\ r_found' = <<>>
            /\ IF threads = <<>>
               THEN /\ NextQuery(r_all)
               ELSE /\ r_threads' = threads
                    /\ pc' = "r_thread"
                    /\ UNCHANGED <<r_queries, r_out>>
            /\ UNCHANGED <<r_all, r_seen>>
       \/ \E class \in HttpFailures :
            /\ r_last' = "search_failed"
            /\ QueryFailed(class)
            /\ UNCHANGED r_title
    /\ UNCHANGED <<entry, product_name, identity, f_todo, f_urls>>
    /\ UNCHANGED <<url, max_rounds, driver_made, quits, loopvars, counters,
                   exc, faults, loaded, page, all_reviews, result, response>>

\* lines 102-109: the last thread of the query is done: _search_query returns
\* `found` and search_product merges it
QueryDone(found) ==
    LET merged == MergeNew([all |-> r_all, seen |-> r_seen], found) IN
    /\ r_all' = merged.all
    /\ r_seen' = merged.seen
    /\ NextQuery(merged.all)

\* the loop of lines 151-186 goes on with `found` collected so far
ThreadDone(found) ==
    IF Tail(r_threads) = <<>>
    THEN QueryDone(found)
    ELSE /\ r_threads' = Tail(r_threads)
         /\ r_found' = found
         /\ UNCHANGED <<r_queries, r_all, r_seen, r_out, pc>>

\* An exception while a thread is processed (line 184): the handler formats
\* thread_title[:40], which itself raises when thread_title is unbound or None.
ThreadFailed(class, title) ==
    IF ~ThreadHandlerCatches(class) THEN QueryFailed(class)
    ELSE IF title = "unbound" THEN QueryFailed("UnboundLocalError")
    ELSE IF title = "none" THEN QueryFailed("TypeError")
    ELSE ThreadDone(r_found)

\* the thread gets its comments fetched whatever the thread-level gate says
DescendsIntoEvery(t, id) == TRUE

\* lines 165-174: the thread-level gate lets the thread through
DescendsInto(t, id) ==
    ~(ShouldRejectThread(t, id) \/ t.num_comments < MinThreadComments)

\* lines 151-186: one thread of the listing, its comments included
RedditThread ==
    /\ UNCHANGED <<ovars, nvars, xvars, avars>>
    /\ pc = "r_thread"
    /\ h_thread' = Head(r_threads)
    /\ UNCHANGED h_page
    /\ LET t == Head(r_threads) IN
       CASE t.shape = "not_dict" ->
               /\ r_last' = "thread_failed"
               /\ ThreadFailed("AttributeError", r_title)
               /\ h_descended' = FALSE /\ h_scored' = {} /\ h_revs' = <<>>
               /\ UNCHANGED <<r_title, r_requests>>
         [] t.shape = "null_title" ->
               /\ r_last' = "thread_failed"
               /\ r_title' = "none"
               /\ ThreadFailed("TypeError", "none")
               /\ h_descended' = FALSE /\ h_scored' = {} /\ h_revs' = <<>>
               /\ UNCHANGED r_requests
         [] OTHER ->
               /\ r_title' = "str"
               /\ h_descended' = DescendsInto(t, identity)
               /\ IF ~DescendsInto(t, identity)
                  THEN /\ r_last' = "skipped"
                       /\ ThreadDone(r_found)
                       /\ h_scored' = {} /\ h_revs' = <<>>
                       /\ UNCHANGED r_requests
                  ELSE /\ r_requests' = r_requests + 1
                       /\ \/ \E o \in ListingOutcomes(t, identity) :
                               /\ r_last' = "ok"
                               /\ h_scored' = o.scored
                               /\ h_revs' = o.reviews
                               /\ ThreadDone(r_found \o o.reviews)
                          \/ \E class \in HttpFailures :
                               /\ r_last' = "fetch_failed"
                               /\ h_scored' = {} /\ h_revs' = <<>>
                               /\ IF FetchThreadCatches(class)
                                  THEN ThreadDone(r_found)
                                  ELSE ThreadFailed(class, "str")
    /\ UNCHANGED <<entry, product_name, identity, f_todo, f_urls>>
    /\ UNCHANGED <<url, max_rounds, driver_made, quits, loopvars, counters,
                   exc, faults, loaded, page, all_reviews, result, response>>

\* ------------------------------------------------- ForumClient.search_product
\* the page loop of lines 64-77 over `urls`, or the return of all_reviews
StartPages(urls, all) ==
    /\ f_urls' = urls
    /\ IF urls = <<>>
       THEN /\ pc' = "done"
            /\ r_out' = Returned(all)
       ELSE /\ pc' = "f_page"
            /\ UNCHANGED r_out

\* lines 48-60 and 89-98
ForumCall ==
    /\ UNCHANGED <<ovars, hvars, nvars, xvars, avars>>
    /\ pc = "idle"
    /\ entry' = "forum"
    /\ \E title \in Titles :
         /\ product_name' = title
         /\ IF IsBlank(title)
            THEN /\ r_out' = Returned(<<>>)
                 /\ pc' = "done"
                 /\ UNCHANGED <<identity, f_todo>>
            ELSE /\ identity' = ExtractProductIdentity(title)
                 /\ f_todo' = DiscoveryPlan(ForumSites, ForumQueries(title, identity'))
                 /\ pc' = "f_discover"
                 /\ UNCHANGED r_out
    /\ UNCHANGED <<r_queries, r_threads, r_title, r_found, r_all, r_seen,
                   r_requests, r_last, f_urls>>
    /\ UNCHANGED <<url, max_rounds, driver_made, quits, loopvars, counters,
                   exc, faults, loaded, page, all_reviews, result, response>>

\* the discovery loop goes on, or returns every URL to a page loop over all
DiscoverDoneUncapped(urls) ==
    IF Tail(f_todo) = <<>>
    THEN /\ f_todo' = <<>>
         /\ h_discovered' = urls
         /\ StartPages(urls, r_all)
    ELSE /\ f_todo' = Tail(f_todo)
         /\ f_urls' = urls
         /\ UNCHANGED <<pc, r_out, h_discovered>>

\* the discovery loop goes on, or returns urls[:20] to the page loop [:15]
DiscoverDone(urls) ==
    IF Tail(f_todo) = <<>>
    THEN /\ f_todo' = <<>>
         /\ h_discovered' = Prefix(urls, UrlCap)
         /\ StartPages(Prefix(Prefix(urls, UrlCap), PageCap), r_all)
    ELSE /\ f_todo' = Tail(f_todo)
         /\ f_urls' = urls
         /\ UNCHANGED <<pc, r_out, h_discovered>>

\* lines 100-124: one discovery request, whose search page shows one of
\* `listings`
ForumDiscoverOf(listings) ==
    /\ UNCHANGED <<ovars, hvars, xvars, avars>>
    /\ pc = "f_discover"
    /\ r_requests' = r_requests + 1
    /\ h_discovers' = h_discovers + 1
    /\ UNCHANGED <<h_searches, h_fetched>>
    /\ \/ \E links \in listings :
            /\ r_last' = "ok"
            /\ DiscoverDone(AddLinks(f_urls, Head(f_todo).site, links))
       \/ /\ r_last' = "not_200"
          /\ DiscoverDone(f_urls)
       \/ \E class \in HttpFailures :
            /\ r_last' = "discover_failed"
            /\ IF DiscoverHandlerCatches(class)
               THEN DiscoverDone(f_urls)
               ELSE IF ForumSearchCatches(class)
               THEN /\ pc' = "done"
                    /\ r_out' = Returned(<<>>)
                    /\ UNCHANGED <<f_todo, f_urls, h_discovered>>
               ELSE /\ pc' = "raised"
                    /\ UNCHANGED <<f_todo, f_urls, r_out, h_discovered>>
    /\ UNCHANGED <<entry, product_name, identity, r_queries, r_threads, r_title, r_found,
                   r_all, r_seen>>
    /\ UNCHANGED <<url, max_rounds, driver_made, quits, loopvars, counters,
                   exc, faults, loaded, page, all_reviews, result, response>>

\* the page loop goes on with the reviews `revs` of the page just fetched
PageDone(revs) ==
    LET merged == MergeNew([all |-> r_all, seen |-> r_seen], revs) IN
    /\ r_all' = merged.all
    /\ r_seen' = merged.seen
    /\ StartPages(Tail(f_urls), merged.all)

ForumDiscover == ForumDiscoverOf(BoundedSeqs(Hrefs, MaxLinks))

\* lines 64-74 and 129-238: one page, one of `pages`, is fetched, gated and
\* merged
ForumPageOf(pages) ==
    /\ UNCHANGED <<ovars, xvars, avars>>
    /\ pc = "f_page"
    /\ r_requests' = r_requests + 1
    /\ h_fetched' = Append(h_fetched, Head(f_urls))
    /\ UNCHANGED <<h_searches, h_discovers, h_discovered>>
    /\ UNCHANGED <<h_thread, h_descended>>
    /\ \/ \E pg \in pages :
            /\ r_last' = "ok"
            /\ h_page' = pg
            /\ h_scored' = IF PageReachesScorer(pg, identity) THEN {pg} ELSE {}
            /\ h_revs' = PageReviews(Head(f_urls), pg, identity)
            /\ PageDone(PageReviews(Head(f_urls), pg, identity))
       \/ \E class \in HttpFailures :
            /\ r_last' = "page_failed"
            /\ h_page' = NoPage /\ h_scored' = {} /\ h_revs' = <<>>
            /\ IF FetchPageCatches(class) \/ ForumSearchCatches(class)
               THEN PageDone(<<>>)
               ELSE /\ pc' = "raised"
                    /\ UNCHANGED <<f_urls, r_all, r_seen, r_out>>
    /\ UNCHANGED <<entry, product_name, identity, r_queries, r_threads, r_title, r_found,
                   f_todo>>
    /\ UNCHANGED <<url, max_rounds, driver_made, quits, loopvars, counters,
                   exc, faults, loaded, page, all_reviews, result, response>>

ForumPage == ForumPageOf(PageKinds)

Next ==
    \/ FetchCall
    \/ RouteCall
    \/ Validate
    \/ Construct
    \/ Get
    \/ Expand
    \/ CountRead
    \/ Click
    \/ Parse
    \/ Quit
    \/ RouteRespond
    \/ RedditCall
    \/ RedditSearch
    \/ RedditThread
    \/ ForumCall
    \/ ForumDiscover
    \/ ForumPage

Spec == Init /\ [][Next]_vars

\* ------------------------------------ _expand_all_reviews_fast, by thread
\* the exit of the `with` block returns without waiting for the workers
ShutdownDoesNotWait == FALSE

\* line 144: leaving `with ThreadPoolExecutor(...)` calls shutdown(wait=True)
ShutdownWaits == TRUE

Finishes == {"clicked", "failed"}

AllFinished == \A b \in 1..x_buttons : x_task[b] \in Finishes

Running == { b \in 1..MaxButtons : x_task[b] = "running" }

\* fetch_google_reviews lines 61-64: the page has loaded, the loader starts
LoaderStart ==
    /\ x_pc = "idle"
    /\ x_pc' = "expand"
    /\ UNCHANGED <<x_round, x_buttons, x_submitted, x_task, x_attempts, x_timed_out>>
    /\ UNCHANGED <<gvars, cvars, ovars, hvars, nvars, avars>>

\* lines 135-141: the buttons are looked up; none found, or the lookup
\* raises: the step returns
FindButtons ==
    /\ x_pc = "expand"
    /\ x_task' = [b \in 1..MaxButtons |-> "none"]
    /\ x_attempts' = [b \in 1..MaxButtons |-> 0]
    /\ x_submitted' = 0
    /\ x_timed_out' = FALSE
    /\ \/ \E n \in 0..MaxButtons :
            /\ x_buttons' = n
            /\ x_pc' = IF n = 0 THEN "count" ELSE "submit"
       \/ /\ x_buttons' = 0
          /\ x_pc' = "count"
    /\ UNCHANGED x_round
    /\ UNCHANGED <<gvars, cvars, ovars, hvars, nvars, avars>>

\* line 153: executor.submit(click_button, b) for the next button
SubmitClick ==
    /\ x_pc = "submit"
    /\ x_submitted' = x_submitted + 1
    /\ x_task' = [x_task EXCEPT ![x_submitted + 1] = "queued"]
    /\ x_pc' = IF x_submitted + 1 = x_buttons THEN "collect" ELSE "submit"
    /\ UNCHANGED <<x_round, x_buttons, x_attempts, x_timed_out>>
    /\ UNCHANGED <<gvars, cvars, ovars, hvars, nvars, avars>>

\* a free worker takes the oldest queued call and issues the click
\* (lines 145-147)
WorkerClicks(b) ==
    /\ x_task[b] = "queued"
    /\ \A j \in 1..(b - 1) : x_task[j] # "queued"
    /\ Cardinality(Running) < MaxWorkers
    /\ x_task' = [x_task EXCEPT ![b] = "running"]
    /\ x_attempts' = [x_attempts EXCEPT ![b] = @ + 1]
    /\ UNCHANGED <<x_pc, x_round, x_buttons, x_submitted, x_timed_out>>
    /\ UNCHANGED <<gvars, cvars, ovars, hvars, nvars, avars>>

\* lines 147-150: the click returns, or raises and click_button returns False
WorkerReturns(b) ==
    /\ x_task[b] = "running"
    /\ \E outcome \in Finishes : x_task' = [x_task EXCEPT ![b] = outcome]
    /\ UNCHANGED <<x_pc, x_round, x_buttons, x_submitted, x_attempts, x_timed_out>>
    /\ UNCHANGED <<gvars, cvars, ovars, hvars, nvars, avars>>

\* lines 155-159: as_completed has yielded every future, or its timeout
\* raises TimeoutError and the `with` block is left
Collect ==
    /\ x_pc = "collect"
    /\ x_timed_out' = ~AllFinished
    /\ x_pc' = "exit"
    /\ UNCHANGED <<x_round, x_buttons, x_submitted, x_task, x_attempts>>
    /\ UNCHANGED <<gvars, cvars, ovars, hvars, nvars, avars>>

\* line 144, the end of the `with` block, and lines 160-161
ExitPool ==
    /\ x_pc = "exit"
    /\ ShutdownWaits => AllFinished
    /\ x_pc' = "count"
    /\ UNCHANGED <<x_round, x_buttons, x_submitted, x_task, x_attempts, x_timed_out>>
    /\ UNCHANGED <<gvars, cvars, ovars, hvars, nvars, avars>>

\* lines 105-107: the count read of the round
ReadCount ==
    /\ x_pc = "count"
    /\ x_pc' = "counted"
    /\ UNCHANGED <<x_round, x_buttons, x_submitted, x_task, x_attempts, x_timed_out>>
    /\ UNCHANGED <<gvars, cvars, ovars, hvars, nvars, avars>>

\* lines 109-127: the loop goes into its next round, or is left
NextRound ==
    /\ x_pc = "counted"
    /\ \/ /\ x_round + 1 < MaxRounds
          /\ x_round' = x_round + 1
          /\ x_pc' = "expand"
       \/ /\ x_pc' = "stopped"
          /\ UNCHANGED x_round
    /\ UNCHANGED <<x_buttons, x_submitted, x_task, x_attempts, x_timed_out>>
    /\ UNCHANGED <<gvars, cvars, ovars, hvars, nvars, avars>>

ExpandNext ==
    \/ LoaderStart
    \/ FindButtons
    \/ SubmitClick
    \/ \E b \in 1..MaxButtons : WorkerClicks(b)
    \/ \E b \in 1..MaxButtons : WorkerReturns(b)
    \/ Collect
    \/ ExitPool
    \/ ReadCount
    \/ NextRound

ExpandSpec == Init /\ [][ExpandNext]_vars

\* ------------------------------------------------ the price-alert routes
\* lines 41-47: the active alerts of a product and an email
ActiveMatches(rows, p, e) ==
    { k \in 1..Len(rows) :
        /\ rows[k].present
        /\ rows[k].product_id = p
        /\ rows[k].email = e
        /\ rows[k].is_active }

\* select(PriceAlert).where(PriceAlert.id == alert_id)
Found(rows, id) == id <= Len(rows) /\ rows[id].present

\* line 34: request_data.email or the caller's email
EmailOf(caller, given) ==
    IF given # NoEmail THEN given
    ELSE IF caller # NoUser THEN ProfileEmail(caller) ELSE NoEmail

PendingCreates == Cardinality({ r \in 1..MaxCalls : a_req[r].op = "create" })

Answer(r, code) ==
    /\ a_status' = code
    /\ a_req' = [a_req EXCEPT ![r] = IdleCall]

\* the attribute assignments of update_price_alert that change the loaded
\* object; only these columns are written at commit
Changed(given, old) == { v \in given : v # old }

\* create_price_alert, lines 31-66: up to the insert
CreatePriceAlert(r) ==
    /\ a_req[r] = IdleCall
    /\ \E caller \in Profiles \cup {NoUser}, given \in RequestEmails,
          p \in ProductIds :
         LET email == EmailOf(caller, given)
             existing == ActiveMatches(a_rows, p, email)
         IN  IF email = NoEmail
             THEN Answer(r, 400)
             ELSE IF Cardinality(existing) > 1
             THEN Answer(r, 500)        \* scalar_one_or_none raises
             ELSE IF existing # {}
             THEN Answer(r, 409)
             ELSE /\ Len(a_rows) + PendingCreates < MaxAlerts
                  /\ a_req' = [a_req EXCEPT ![r] =
                                [IdleCall EXCEPT !.op = "create", !.user = caller,
                                                 !.product_id = p, !.email = email,
                                                 !.target_price = {10}]]
                  /\ UNCHANGED a_status
    /\ UNCHANGED a_rows
    /\ UNCHANGED <<gvars, cvars, ovars, hvars, nvars, xvars>>

\* create_price_alert, lines 68-74: db.add, commit, refresh, response
CreateCommit(r) ==
    /\ a_req[r].op = "create"
    /\ a_rows' = Append(a_rows, Alert(a_req[r].user, a_req[r].product_id,
                                      a_req[r].email, 10))
    /\ Answer(r, 200)
    /\ UNCHANGED <<gvars, cvars, ovars, hvars, nvars, xvars>>

\* update_price_alert, lines 166-183: load, authorize, assign
UpdatePriceAlert(r) ==
    /\ a_req[r] = IdleCall
    /\ \E caller \in Profiles, id \in 1..MaxAlerts, t \in PriceUpdates,
          act \in ActiveUpdates :
         IF ~Found(a_rows, id)
         THEN Answer(r, 404)
         ELSE IF a_rows[id].user_id # caller
         THEN Answer(r, 403)
         ELSE /\ a_req' = [a_req EXCEPT ![r] =
                            [IdleCall EXCEPT !.op = "update", !.user = caller,
                               !.id = id,
                               !.target_price = Changed(t, a_rows[id].target_price),
                               !.is_active = Changed(act, a_rows[id].is_active)]]
              /\ UNCHANGED a_status
    /\ UNCHANGED a_rows
    /\ UNCHANGED <<gvars, cvars, ovars, hvars, nvars, xvars>>

\* update_price_alert, lines 185-188: commit, refresh, response; a row that
\* was deleted in the meantime makes the commit or the refresh raise
UpdateCommit(r) ==
    /\ a_req[r].op = "update"
    /\ LET id == a_req[r].id IN
       IF Found(a_rows, id)
       THEN /\ a_rows' = [a_rows EXCEPT ![id] =
                  [@ EXCEPT !.target_price =
                                IF a_req[r].target_price = {} THEN @
                                ELSE CHOOSE v \in a_req[r].target_price : TRUE,
                            !.is_active =
                                IF a_req[r].is_active = {} THEN @
                                ELSE CHOOSE v \in a_req[r].is_active : TRUE]]
            /\ Answer(r, 200)
       ELSE /\ UNCHANGED a_rows
            /\ Answer(r, 500)
    /\ UNCHANGED <<gvars, cvars, ovars, hvars, nvars, xvars>>

\* delete_price_alert, lines 204-215: load, authorize
DeletePriceAlert(r) ==
    /\ a_req[r] = IdleCall
    /\ \E caller \in Profiles, id \in 1..MaxAlerts :
         IF ~Found(a_rows, id)
         THEN Answer(r, 404)
         ELSE IF a_rows[id].user_id # caller
         THEN Answer(r, 403)
         ELSE /\ a_req' = [a_req EXCEPT ![r] =
                            [IdleCall EXCEPT !.op = "delete", !.user = caller,
                                             !.id = id]]
              /\ UNCHANGED a_status
    /\ UNCHANGED a_rows
    /\ UNCHANGED <<gvars, cvars, ovars, hvars, nvars, xvars>>

\* delete_price_alert, lines 217-220: delete, commit, response
DeleteCommit(r) ==
    /\ a_req[r].op = "delete"
    /\ a_rows' = IF Found(a_rows, a_req[r].id)
                  THEN [a_rows EXCEPT ![a_req[r].id] = Gone]
                  ELSE a_rows
    /\ Answer(r, 200)
    /\ UNCHANGED <<gvars, cvars, ovars, hvars, nvars, xvars>>

AlertNext ==
    \/ \E r \in 1..MaxCalls : CreatePriceAlert(r)
    \/ \E r \in 1..MaxCalls : CreateCommit(r)
    \/ \E r \in 1..MaxCalls : UpdatePriceAlert(r)
    \/ \E r \in 1..MaxCalls : UpdateCommit(r)
    \/ \E r \in 1..MaxCalls : DeletePriceAlert(r)
    \/ \E r \in 1..MaxCalls : DeleteCommit(r)

AlertSpec == Init /\ [][AlertNext]_vars

\* ------------------------------------------ the fetchers on long listings
\* the search pages of a crawl: empty, or longer than the URL cap
CrawlListings == {<<>>, LongListing}

\* the pages of a crawl: the ones the page-level gate turns away early
CrawlPages == { pg \in PageKinds : pg.chars < MinPageLen \/ pg.rej }

CrawlDiscover == ForumDiscoverOf(CrawlListings)

CrawlPage == ForumPageOf(CrawlPages)

CrawlNext ==
    \/ RedditCall
    \/ RedditSearch
    \/ RedditThread
    \/ ForumCall
    \/ CrawlDiscover
    \/ CrawlPage

CrawlSpec == Init /\ [][CrawlNext]_vars

\* -------------------------------------------- SearchService.search_all_sources
\* lines 30-46: a request arrives, one task per requested source is created
SearchAllSources ==
    /\ s_pc = "idle"
    /\ \E request \in Requests :
         /\ s_request' = request
         /\ s_slots' = [k \in 1..Len(request.sources) |-> Pending]
    /\ s_pc' = "gather"
    /\ UNCHANGED <<s_order, s_merged, s_out>>
    /\ UNCHANGED <<gvars, cvars, qvars, hvars, nvars, xvars, avars>>

\* lines 67-114: the task of source number k runs to its end
SearchSource(k) ==
    /\ s_pc = "gather"
    /\ s_slots[k].state = "pending"
    /\ LET source == s_request.sources[k] IN
       \/ \E cached \in ResultLists(source) \ {<<>>} :
            s_slots' = [s_slots EXCEPT ![k] = TaskReturned(cached, FALSE)]
       \/ /\ source \in KnownSources
          /\ \E found \in ResultLists(source) :
               s_slots' = [s_slots EXCEPT ![k] = TaskReturned(found, FALSE)]
       \/ /\ source \notin KnownSources
          /\ s_slots' = [s_slots EXCEPT ![k] = TaskReturned(<<>>, FALSE)]
       \/ \E failure \in SourceFailures :
            s_slots' = [s_slots EXCEPT ![k] =
                          IF SearchSourceCatches(failure)
                          THEN TaskReturned(<<>>, TRUE) ELSE TaskRaised]
    /\ s_order' = Append(s_order, k)
    /\ UNCHANGED <<s_pc, s_request, s_merged, s_out>>
    /\ UNCHANGED <<gvars, cvars, qvars, hvars, nvars, xvars, avars>>

\* lines 46-61: gather hands the outcomes over, they are merged and filtered
Aggregate ==
    /\ s_pc = "gather"
    /\ \A k \in 1..Len(s_slots) : s_slots[k].state # "pending"
    /\ s_merged' = AggregateResults(<<>>, GatherResults(s_slots, s_order))
    /\ s_out' = Returned(ApplyFilters(s_merged', s_request))
    /\ s_pc' = "done"
    /\ UNCHANGED <<s_request, s_slots, s_order>>
    /\ UNCHANGED <<gvars, cvars, qvars, hvars, nvars, xvars, avars>>

FanoutNext ==
    \/ SearchAllSources
    \/ \E k \in 1..Len(s_slots) : SearchSource(k)
    \/ Aggregate

FanoutSpec == Init /\ [][FanoutNext]_vars

\* ------------------------------------------------------ /search (backend)
RECURSIVE SumOver(_, _)
SumOver(f, d) == IF d < 0 THEN 0 ELSE f[d] + SumOver(f, d - 1)

\* search.py lines 29-58: a request of the caller arrives, with or without
\* the X-Session-Id header, and takes the first free slot
SearchProducts(r) ==
    /\ q_req[r].pc = "idle"
    /\ \A j \in 1..(r - 1) : q_req[j].pc # "idle"
    /\ \E kind \in (IF q_kind = "none" THEN Kinds ELSE {q_kind}), session \in BOOLEAN :
         /\ q_kind' = kind
         /\ q_req' = [q_req EXCEPT ![r] = [IdleRequest EXCEPT !.pc = "check",
                                                              !.session = session]]
    /\ UNCHANGED <<q_today, q_rows, q_response, q_db_failed, q_performed>>
    /\ UNCHANGED <<gvars, cvars, fvars, hvars, nvars, xvars, avars>>

\* the request goes on with `grant`, or is answered 403
Granted(r, grant) ==
    IF grant.has_access
    THEN /\ q_req' = [q_req EXCEPT ![r].pc = "search", ![r].remaining = grant.remaining]
         /\ UNCHANGED q_response
    ELSE /\ q_req' = [q_req EXCEPT ![r] = IdleRequest]
         /\ q_response' = NoResponse403

\* search.py lines 59-69 and check_search_access
CheckSearchAccess(r) ==
    /\ q_req[r].pc = "check"
    /\ \/ /\ q_kind = "premium"
          /\ Granted(r, [has_access |-> TRUE, remaining |-> -1])
          /\ UNCHANGED q_db_failed
       \/ /\ q_kind # "premium"
          /\ Granted(r, CheckUsage(q_kind, q_req[r].session, RowsOf(q_rows, q_today), q_rows))
          /\ UNCHANGED q_db_failed
       \/ /\ HasUserId(q_kind) \/ q_req[r].session
          /\ Granted(r, GrantOnError)
          /\ q_db_failed' = TRUE
    /\ UNCHANGED <<q_kind, q_today, q_rows, q_performed>>
    /\ UNCHANGED <<gvars, cvars, fvars, hvars, nvars, xvars, avars>>

\* the searches performed for the caller so far
Performed(performed) == SumOver(performed, MaxDay)

\* search.py line 83: the search is performed, or fails (answered 500)
PerformSearch(r) ==
    /\ q_req[r].pc = "search"
    /\ \/ /\ Performed(q_performed) < MaxSearches
          /\ \E n \in ResultCounts :
               q_req' = [q_req EXCEPT ![r].pc = "increment", ![r].results = n]
          /\ q_performed' = [q_performed EXCEPT ![q_today] = @ + 1]
          /\ UNCHANGED q_response
       \/ /\ q_req' = [q_req EXCEPT ![r] = IdleRequest]
          /\ q_response' = [NoAnswer EXCEPT !.status = 500]
          /\ UNCHANGED q_performed
    /\ UNCHANGED <<q_kind, q_today, q_rows, q_db_failed>>
    /\ UNCHANGED <<gvars, cvars, fvars, hvars, nvars, xvars, avars>>

\* search.py lines 92-118: the response is built and sent
Respond(r) ==
    /\ q_req' = [q_req EXCEPT ![r] = IdleRequest]
    /\ q_response' = SearchResponse(q_kind, q_req[r])

\* increment_search_count lines 119-166: the usage row of today is selected
\* and incremented in the session, or a new row is added to the session; on
\* an error (lines 170-174: several rows found, or the query failed) nothing
\* is written and the route responds
IncrementSelect(r) ==
    /\ q_req[r].pc = "increment"
    /\ LET found == RowsOf(q_rows, q_today) IN
       \/ /\ ~HasUserId(q_kind) /\ ~q_req[r].session
          /\ q_req' = [q_req EXCEPT ![r].pc = "commit"]
          /\ UNCHANGED <<q_response, q_db_failed>>
       \/ /\ HasUserId(q_kind) \/ q_req[r].session
          /\ Cardinality(found) = 1
          /\ LET k == CHOOSE j \in found : TRUE IN
             q_req' = [q_req EXCEPT ![r].pc = "commit",
                                    ![r].pending = [op |-> "update", row |-> k, date |-> q_today,
                                                    count |-> q_rows[k].count + 1]]
          /\ UNCHANGED <<q_response, q_db_failed>>
       \/ /\ HasUserId(q_kind) \/ q_req[r].session
          /\ found = {}
          /\ q_req' = [q_req EXCEPT ![r].pc = "commit",
                                    ![r].pending = [op |-> "insert", row |-> 0, date |-> q_today,
                                                    count |-> 1]]
          /\ UNCHANGED <<q_response, q_db_failed>>
       \/ /\ HasUserId(q_kind) \/ q_req[r].session
          /\ Cardinality(found) > 1
          /\ Respond(r)
          /\ UNCHANGED q_db_failed
       \/ /\ HasUserId(q_kind) \/ q_req[r].session
          /\ Respond(r)
          /\ q_db_failed' = TRUE
    /\ UNCHANGED <<q_kind, q_today, q_rows, q_performed>>
    /\ UNCHANGED <<gvars, cvars, fvars, hvars, nvars, xvars, avars>>

\* increment_search_count line 168: the commit writes the pending change;
\* then the route responds
IncrementCommit(r) ==
    /\ q_req[r].pc = "commit"
    /\ LET p == q_req[r].pending IN
       q_rows' = IF p.op = "update" THEN [q_rows EXCEPT ![p.row].count = p.count]
                 ELSE IF p.op = "insert" THEN Append(q_rows, [date |-> p.date, count |-> p.count])
                 ELSE q_rows
    /\ Respond(r)
    /\ UNCHANGED <<q_kind, q_today, q_db_failed, q_performed>>
    /\ UNCHANGED <<gvars, cvars, fvars, hvars, nvars, xvars, avars>>

\* midnight passes
NextDay ==
    /\ q_kind # "none"
    /\ q_today < MaxDay
    /\ q_today' = q_today + 1
    /\ UNCHANGED <<q_kind, q_rows, q_req, q_response, q_db_failed, q_performed>>
    /\ UNCHANGED <<gvars, cvars, fvars, hvars, nvars, xvars, avars>>

QuotaNext ==
    \/ \E r \in 1..MaxRequests : SearchProducts(r)
    \/ \E r \in 1..MaxRequests : CheckSearchAccess(r)
    \/ \E r \in 1..MaxRequests : PerformSearch(r)
    \/ \E r \in 1..MaxRequests : IncrementSelect(r)
    \/ \E r \in 1..MaxRequests : IncrementCommit(r)
    \/ NextDay

QuotaSpec == Init /\ [][QuotaNext]_vars

(***************************************************************************)
(* Properties                                                              *)
(***************************************************************************)
LoopPcs == {"expand", "count", "click"}
AfterParse == {"quit", "returned", "raised", "responded"}
Finished == {"returned", "raised", "responded"}

\* the number of latest reads that equal the read before them
RECURSIVE UnchangedRun(_)
UnchangedRun(w) ==
    IF Len(w) < 2 THEN 0
    ELSE IF w[Len(w)] = w[Len(w) - 1]
         THEN 1 + UnchangedRun(SubSeq(w, 1, Len(w) - 1))
         ELSE 0

\* what is left of the loop: three steps for every round not yet started
Phase == CASE pc = "count" -> 1 [] pc = "click" -> 2 [] OTHER -> 0
RoundsLeft == 3 * (max_rounds - i) - Phase

\* C1: the loader performs at most max_rounds count reads and at most
\* max_rounds load-more attempts, every step inside the loop uses up what is
\* left of the max_rounds rounds, and when the loop is left with a stop reason
\* the final extraction is what comes next.
LoaderTerminatesWithinMaxRounds ==
    /\ [](n_reads <= max_rounds /\ n_clicks <= max_rounds)
    /\ [](pc \in LoopPcs => RoundsLeft > 0)
    /\ [][(pc \in LoopPcs /\ pc' \in LoopPcs) => (RoundsLeft' < RoundsLeft)]_vars
    /\ [](stop_reason # "none" => pc = "parse" \/ n_extract = 1)
    /\ [][(pc \in LoopPcs /\ pc' \notin LoopPcs /\ faults' = faults)
            => (pc' = "parse" /\ stop_reason' # "none")]_vars

\* C1 witness: a count that never stabilizes is stopped by the ceiling, and
\* the extraction has run.
WitnessCeilingReached ==
    /\ stop_reason = "ceiling"
    /\ max_rounds = 3
    /\ n_reads = 3
    /\ n_clicks = 3
    /\ n_extract = 1

\* C2 as stated: a load-more click is attempted only in a round whose count
\* changed and that is not the last permitted round.
ClickOnlyAfterChangeBeforeLastRound ==
    pc = "click" => stable_rounds = 0 /\ i + 1 < max_rounds

\* C2 amended: a load-more click is attempted only while fewer than 2
\* consecutive unchanged rounds have been observed and the round index is
\* below max_rounds; an attempt that finds no control stops the loader.
ClickOnlyWhileNotStabilized ==
    /\ pc = "click" => UnchangedRun(seen) < StableLimit /\ i < max_rounds
    /\ pc = "parse" /\ last_click = "absent" => stop_reason = "no_control"

\* C2 witness: a click is about to be attempted in the last permitted round
\* although the count did not change in it.
WitnessClickInUnchangedLastRound ==
    /\ pc = "click"
    /\ stable_rounds = 1
    /\ UnchangedRun(seen) = 1
    /\ i + 1 = max_rounds

\* C3: the loader stops as stabilized as soon as the count has been unchanged
\* for 2 consecutive rounds (the first read being compared with the initial
\* count 0), without a further click in that round, and never stops as
\* stabilized after fewer than 2 consecutive unchanged rounds.
StabilizedAfterTwoUnchangedRounds ==
    /\ pc \in LoopPcs \cup {"parse"} /\ UnchangedRun(seen) >= 2
         => pc = "parse" /\ stop_reason = "stabilized"
    /\ pc = "parse" /\ stop_reason = "stabilized" => UnchangedRun(seen) >= 2
    /\ stop_reason = "stabilized" => n_clicks = n_reads - 1 /\ last_click = "none"

\* C3 witness: a non-empty page stopped as stabilized after three equal reads.
WitnessStabilized ==
    /\ pc = "parse"
    /\ stop_reason = "stabilized"
    /\ seen = <<1, 1, 1>>
    /\ n_reads = 3

\* C4 as stated: the final extraction is never entered right after a
\* successful click, and the loop is left from a click attempt only when no
\* control was found.
ExpandAfterEveryClick ==
    pc = "parse" /\ last_click # "none"
        => last_click = "absent" /\ stop_reason = "no_control"

\* C5 as stated: once the page has loaded, fetch_google_reviews never returns
\* the fatal outcome.
OnlyPageLoadIsFatal ==
    pc = "returned" /\ loaded => result.success

\* C6: a load-more click or an expand that raises is swallowed: the exception
\* never leaves the loader, the final extraction still runs, and when nothing
\* else failed the call returns success with the reviews extracted.
ClickAndExpandFailuresSwallowed ==
    /\ exc.msg \notin {"click failed", "expand failed"}
    /\ result.error \notin {"click failed", "expand failed"}
    /\ pc \in Finished /\ faults # {} /\ faults \subseteq {"click", "expand"}
         => /\ pc # "raised"
            /\ n_extract = 1
            /\ result.success
            /\ result.reviews = all_reviews
    /\ pc \in AfterParse /\ "click" \in faults => n_extract = 1

\* C6 witness: a call in which an expand and the load-more click raised has
\* returned a review.
WitnessSwallowed ==
    /\ pc = "returned"
    /\ faults = {"click", "expand"}
    /\ result.success
    /\ Len(result.reviews) = 1

\* the page positions whose item can be read and passes the validity check,
\* stated on the item itself
GoodPositions(elems) ==
    { k \in 1..Len(elems) :
        /\ elems[k].readable
        /\ Len(elems[k].text) > 10
        /\ \E d \in 1..Len(elems[k].rating_text) :
             /\ elems[k].rating_text[d] \in Digits \ {"0"}
             /\ \A b \in 1..(d - 1) : elems[k].rating_text[b] \notin Digits }

\* C7: whatever the stop reason, the final extraction runs exactly once, every
\* review it returns has a text longer than 10 characters and a rating above
\* 0, and exactly the readable, valid items of the page are returned.
ExtractionOnceAndValid ==
    /\ n_extract <= 1
    /\ pc \in AfterParse /\ stop_reason # "none" => n_extract = 1
    /\ \A k \in 1..Len(all_reviews) :
         /\ Len(all_reviews[k].text) > 10
         /\ all_reviews[k].rating > 0
    /\ Len(all_reviews) = Cardinality(GoodPositions(page))
    /\ \A k \in GoodPositions(page) :
         \E j \in 1..Len(all_reviews) : all_reviews[j].text = page[k].text

\* C7 witness: of an unreadable item and a valid one only the valid one is
\* returned, after a stop for lack of a control.
WitnessDroppedItem ==
    /\ pc = "returned"
    /\ stop_reason = "no_control"
    /\ Len(page) = 2
    /\ ~page[1].readable
    /\ Len(result.reviews) = 1

\* C8: a constructed driver is released exactly once before the call returns,
\* on every path; no driver is constructed for an invalid URL.
DriverReleasedExactlyOnce ==
    /\ driver_made <= 1
    /\ quits <= driver_made
    /\ pc \in Finished => quits = driver_made
    /\ entry # "none" /\ pc \notin {"validate", "responded"}
         /\ ~IsValidGoogleShoppingUrl(url) => driver_made = 0

\* C8 witness: a call whose page load failed has returned with its driver
\* released.
WitnessReleasedOnFailure ==
    /\ pc = "returned"
    /\ "get" \in faults
    /\ driver_made = 1
    /\ quits = 1

FailedSteps == {"search_failed", "thread_failed", "fetch_failed",
                "discover_failed", "page_failed"}

\* C9: whatever network, timeout and parse failures occur, the Reddit and the
\* forum search_product return a list, fetch_google_reviews returns a result
\* record, none of them raises, and a failed request, thread or page adds no
\* candidate (a failed scrape returns no review).
SourcesNeverRaise ==
    /\ [](pc # "raised")
    /\ [](pc = "done" => /\ r_out.returned
                         /\ DOMAIN r_out.value = 1..Len(r_out.value)
                         /\ r_out.value = r_all)
    /\ [](pc = "returned" => /\ result.success \in BOOLEAN
                             /\ result.error # "unset"
                             /\ (~result.success => result.reviews = <<>>))
    /\ [][r_last' \in FailedSteps
            => (/\ r_all' \in {r_all, MergeNew([all |-> r_all, seen |-> r_seen], r_found).all}
                /\ Len(f_urls') <= Len(f_urls)
                /\ r_found' \in {r_found, <<>>})]_vars

\* C9 witness: a Reddit search whose last query failed has returned the
\* reviews of its earlier queries.
WitnessFailedQueryIsolated ==
    /\ entry = "reddit"
    /\ pc = "done"
    /\ r_last = "search_failed"
    /\ r_requests > 4
    /\ Len(r_out.value) = 2

\* C10 as stated: a successful /reviews/google response never holds two
\* reviews with the same text.
ResponseHasNoDuplicateTexts ==
    pc = "responded" /\ response.status = 200
        => \A a, b \in 1..Len(response.reviews) :
             a # b => response.reviews[a].text # response.reviews[b].text

\* ---------------------------------------------------------------- C11
\* the title is empty or consists of white space only
OnlyWhiteSpace(title) == \A k \in 1..Len(title) : title[k].space

ContentUpperBound == RedditContentCap

\* C12: the content of every emitted review is non-empty, at least as long
\* as its source's minimum and at most as long as a fixed upper bound:
\* Reddit 50..2000, forum 200..1500, shopping results 11..2000.
EmittedContentWithinBounds ==
    /\ \A k \in 1..Len(all_reviews) :
          /\ all_reviews[k].text # ""
          /\ Len(all_reviews[k].text) > MinTextLen
          /\ Len(all_reviews[k].text) <= ContentUpperBound
    /\ entry = "reddit" =>
          \A k \in 1..Len(r_found \o r_all) :
             (r_found \o r_all)[k].content_len \in MinCommentLen..RedditContentCap
    /\ entry = "forum" =>
          \A k \in 1..Len(r_all) :
             r_all[k].content_len \in MinExcerptLen..ForumContentCap

\* ---------------------------------------------------------------- C13
\* C13: the rating of every emitted review is absent or within 0..5; the
\* reviews of the Reddit and forum clients carry no rating.
EmittedRatingAbsentOrWithinFive ==
    /\ \A k \in 1..Len(all_reviews) : all_reviews[k].rating \in 0..5
    /\ \A k \in 1..Len(r_found \o r_all) : (r_found \o r_all)[k].rating = "None"

\* ---------------------------------------------------------------- C14
Ids(list) == { list[k].external_review_id : k \in 1..Len(list) }

NoTwoWithSameId(list) ==
    \A a, b \in 1..Len(list) :
        a # b => list[a].external_review_id # list[b].external_review_id

\* the position of the first review of the list that carries the id
FirstPos(list, id) ==
    CHOOSE k \in 1..Len(list) :
        /\ list[k].external_review_id = id
        /\ \A j \in 1..(k - 1) : list[j].external_review_id # id

\* the step merges the reviews of a query into search_product.all_reviews
MergesQuery ==
    /\ entry = "reddit"
    /\ pc = "r_thread"
    /\ Len(r_queries') < Len(r_queries)
    /\ r_last' \in {"ok", "skipped", "fetch_failed"}

\* C14: the list RedditClient.search_product builds and returns never holds
\* two reviews with the same thread+comment id; a merge keeps what was
\* collected before in place (the first occurrence seen stays), adds every id
\* the query found, and adds the new ones in the order they were first seen.
RedditIdsUniqueFirstSeenKept ==
    /\ [](entry = "reddit" => NoTwoWithSameId(r_all) /\ NoTwoWithSameId(r_out.value))
    /\ [][(entry = "reddit") =>
            (/\ Len(r_all') >= Len(r_all)
             /\ SubSeq(r_all', 1, Len(r_all)) = r_all
             /\ MergesQuery =>
                   /\ Ids(r_found) \subseteq Ids(r_all')
                   /\ \A x, y \in Ids(r_found) \ Ids(r_all) :
                         FirstPos(r_found, x) < FirstPos(r_found, y)
                            => FirstPos(r_all', x) < FirstPos(r_all', y)
             /\ (pc' = "done" /\ pc # "idle") => r_out'.value = r_all')]_vars

\* C14 witness: a first query's review is in the merged list, and a later
\* query has found the same thread and comment again.
WitnessSameThreadTwice ==
    /\ entry = "reddit"
    /\ pc = "r_thread"
    /\ r_all # <<>>
    /\ Ids(r_found) \cap Ids(r_all) # {}
    /\ Len(r_queries) <= 3

\* ---------------------------------------------------------------- C15
CountIn(list, p) == Cardinality({ k \in 1..Len(list) : list[k] = p })

\* how often p occurs in the results of the source tasks that did not fail
RECURSIVE CountInSound(_, _)
CountInSound(slots, p) ==
    IF slots = <<>> THEN 0
    ELSE (IF Head(slots).failed THEN 0 ELSE CountIn(Head(slots).value, p))
         + CountInSound(Tail(slots), p)

AllProducts == { Product(source, k) : source \in SourceNames, k \in 1..2 }

\* C15: when search_all_sources has merged the outcomes, the merged list
\* (before the filters) holds every result of every source task that did not
\* fail, as often as the tasks delivered it, and nothing else: a failing task
\* contributes nothing and takes nothing away.
FailingSourceContributesNothing ==
    s_pc = "done" =>
        /\ s_out.returned
        /\ \A p \in AllProducts : CountIn(s_merged, p) = CountInSound(s_slots, p)
        /\ \A k \in 1..Len(s_merged) : s_merged[k] \in AllProducts

\* C15 witness: one source task failed, another delivered results, and the
\* merged list has them.
WitnessOneSourceFailed ==
    /\ s_pc = "done"
    /\ \E k, j \in 1..Len(s_slots) :
          /\ s_slots[k].failed
          /\ ~s_slots[j].failed
          /\ Len(s_slots[j].value) = 2
    /\ Len(s_merged) = 2

\* ---------------------------------------------------------------- C16
\* the results of the source tasks, one after the other in request order
RECURSIVE InSourceOrder(_)
InSourceOrder(slots) ==
    IF slots = <<>> THEN <<>> ELSE Head(slots).value \o InSourceOrder(Tail(slots))

\* C16: the merged list is the concatenation of the sources' results in the
\* order the request names the sources, whatever the order in which the
\* tasks completed, and the list returned is that list filtered.
MergedInSourceOrder ==
    s_pc = "done" =>
        /\ s_merged = InSourceOrder(s_slots)
        /\ s_out.value = ApplyFilters(InSourceOrder(s_slots), s_request)

\* C16 witness: the task of the second source completed first, both
\* delivered results, and the first source's results come first.
WitnessCompletedInReverse ==
    /\ s_pc = "done"
    /\ s_order = <<2, 1>>
    /\ s_request.sources = <<"amazon", "walmart">>
    /\ Len(s_merged) = 4
    /\ s_merged[1].source = "amazon"
    /\ s_merged[4].source = "walmart"

\* ---------------------------------------------------------------- C17
\* C17: in every successful /reviews/google response raw_count is at most
\* 100 (and is the number of scraped reviews when that is smaller), the
\* reviews list has at most 50 entries and never more than total_found, and
\* raw_count = total_found + filtered_count.
RouteCountsCapped ==
    (entry = "route" /\ pc = "responded" /\ response.status = 200) =>
        /\ response.raw_count <= 100
        /\ response.raw_count <= Len(result.reviews)
        /\ Len(result.reviews) <= 100 => response.raw_count = Len(result.reviews)
        /\ Len(response.reviews) <= 50
        /\ Len(response.reviews) <= response.total_found
        /\ response.raw_count = response.total_found + response.filtered_count
        /\ response.filtered_count >= 0

\* C17 witness: more than 100 reviews were scraped, and the response counts
\* 100 of them and lists 50.
WitnessCapsApplied ==
    /\ entry = "route"
    /\ pc = "responded"
    /\ response.status = 200
    /\ Len(result.reviews) > 100
    /\ response.raw_count = 100
    /\ Len(response.reviews) = 50

\* C18: a registered user without a premium or trial plan is admitted to at
\* most 3 searches per day: whatever the interleaving of the user's /search
\* requests, the searches performed for the user on one day never exceed 3
\* (stated for the runs in which no query of the usage table failed).
FreeUserAtMostThreeSearchesADay ==
    (q_kind = "free" /\ ~q_db_failed) =>
        \A d \in 0..MaxDay : q_performed[d] <= FREE_REGISTERED_USER_DAILY_LIMIT

\* C19: a guest is admitted to at most 1 search in total: after the guest's
\* first search no later request of the guest, on the same or a later day,
\* with or without a session id, is searched (stated for the runs in which
\* no query of the usage table failed).
GuestAtMostOneSearchInTotal ==
    (q_kind = "guest" /\ ~q_db_failed) =>
        Performed(q_performed) <= GUEST_USER_SEARCH_LIMIT

\* C20: a /search response to a guest or to a registered user without a
\* premium or trial plan never carries more than 10 products, also when the
\* quota lookup failed with a database error.
NonPremiumResponseAtMostTenProducts ==
    q_kind \in {"guest", "free"} =>
        q_response.results <= FREE_REGISTERED_USER_RESULT_LIMIT

\* --------------------------------------------------------------------- C21
\* the first four rules of the page-level gate, read off the page
PassedPageRules(pg, id) ==
    /\ pg.chars >= 1000
    /\ \E kw \in id.keywords : Count(pg, kw) > 0
    /\ Count(pg, IF id.model = "" THEN "xxx" ELSE id.model) >= 2
    /\ pg.own
    /\ ~pg.rej

\* the first rules of the reply-level gate, read off the comment
PassedCommentRules(c) == c.len >= 50 /\ c.intent

\* C21: gate rule ordering: the relevance scorer is never called on rejected
\* content. A page is scored only after it passed the length, mention-count,
\* ownership-phrase and rejection-phrase rules, a Reddit comment only after it
\* passed the length and review-intent rules.
ScorerOnlyAfterEarlierRules ==
    \A x \in h_scored :
        IF entry = "forum" THEN PassedPageRules(x, identity) ELSE PassedCommentRules(x)

\* C21: a page that carries a rejection phrase, and passes the three rules
\* before it, was fetched and not scored.
WitnessRejectedPageNotScored ==
    /\ entry = "forum"
    /\ h_page.rej /\ h_page.own /\ h_page.chars >= 1000
    /\ PassesMentions(h_page, identity)
    /\ h_scored = {}

\* --------------------------------------------------------------------- C22
\* C22: a page whose text contains a phrase of the promotional/news/rumor
\* rejection list yields no candidate, whatever relevance score the scorer
\* would give it.
RejectionPhraseYieldsNothing ==
    (entry = "forum" /\ h_page.rej) => (h_revs = <<>> /\ h_scored = {})

\* C22: a page with a rejection phrase that passes every other rule and
\* that the scorer would rate above the threshold was fetched, and yielded
\* nothing.
WitnessHighScoringNewsRejected ==
    /\ entry = "forum"
    /\ h_page.rej /\ h_page.own /\ h_page.chars >= 1000
    /\ PassesMentions(h_page, identity)
    /\ CalculateRelevanceScore(h_page, identity) >= ScoreThreshold
    /\ h_revs = <<>>
    /\ r_last = "ok"

\* --------------------------------------------------------------------- C23
\* how often the identity's model token occurs in the page text; an identity
\* without model has no model token, which occurs nowhere
ModelMentions(pg, id) == IF id.model = "" THEN 0 ELSE Count(pg, id.model)

\* C23: the forum page-level gate accepts a page only if the identity's model
\* token appears at least 2 times in the page text, for every identity, also
\* for one whose model is empty.
AcceptedPageMentionsModelTwice ==
    (entry = "forum" /\ h_revs # <<>>) => ModelMentions(h_page, identity) >= 2

\* --------------------------------------------------------------------- C24
\* the thread-level gate turns the thread away
FailsThreadGate(t, id) == ShouldRejectThread(t, id) \/ t.num_comments < 3

\* C24: the fetcher descends into a thread's replies only after the thread
\* passed the thread-level gate: while a thread that should_reject_thread
\* rejects, or that has fewer than 3 comments, is processed, no request is
\* issued and no candidate is added.
DescendsOnlyAfterThreadGate ==
    [][(pc = "r_thread" /\ Head(r_threads).shape = "ok"
        /\ FailsThreadGate(Head(r_threads), identity))
       => (/\ r_requests' = r_requests
           /\ ~h_descended'
           /\ h_revs' = <<>>
           /\ (pc' = "r_thread" => r_found' = r_found))]_vars

\* C24: a rumor thread with 9 comments was processed and skipped without a
\* request, after an earlier thread of the listing had its comments fetched.
WitnessRumorThreadSkipped ==
    /\ entry = "reddit"
    /\ ShouldRejectThread(h_thread, identity)
    /\ h_thread.num_comments >= 3
    /\ ~h_descended
    /\ r_last = "skipped"
    /\ r_all # <<>>

\* --------------------------------------------------------------------- C25
NoRepeats(list) ==
    \A j, k \in 1..Len(list) : list[j] = list[k] => j = k

\* the Reddit client has gone through all its queries
RedditFinished == entry = "reddit" /\ pc = "done" /\ ~OnlyWhiteSpace(product_name)

\* C25: each discovery-based fetcher issues a bounded number of requests per
\* invocation whatever the search results contain: the Reddit fetcher at most
\* 4 search queries, and exactly 1 when the identity has no model; the forum
\* fetcher at most 6 discovery requests, at most 20 discovered URLs and at
\* most 15 page fetches, each discovered URL being fetched at most once.
RequestsBounded ==
    /\ h_searches <= 4
    /\ (entry = "reddit" /\ ~OnlyWhiteSpace(product_name) /\ identity.model = "")
           => h_searches <= 1
    /\ (RedditFinished /\ identity.model = "") => h_searches = 1
    /\ h_discovers <= 6
    /\ Len(h_discovered) <= 20
    /\ Len(h_fetched) <= 15
    /\ NoRepeats(h_fetched)
    /\ pc = "done" =>
         \A k \in 1..Len(h_fetched) :
             \E j \in 1..Len(h_discovered) : h_discovered[j] = h_fetched[k]

\* C25: two sites showed more links than the caps keep: all 6 discovery
\* requests were made, 20 URLs were returned and 15 pages fetched.
WitnessCapsReached ==
    /\ entry = "forum" /\ pc = "done"
    /\ h_discovers = 6
    /\ Len(h_discovered) = 20
    /\ Len(h_fetched) = 15
    /\ r_last = "page_failed"

IsPrefixOf(s, t) == Len(s) <= Len(t) /\ SubSeq(t, 1, Len(s)) = s

\* C27: partial results survive failures inside a fetcher: whatever fails at
\* a query, a thread, a comment or a page, every candidate accepted so far
\* stays, unchanged and in the same order: the merged list only grows at its
\* end, the candidates of the running query stay collected until they are
\* merged, and the list returned is the merged list.
AcceptedCandidatesSurvive ==
    [][/\ IsPrefixOf(r_all, r_all')
       /\ \/ IsPrefixOf(r_found, r_found')
          \/ \A k \in 1..Len(r_found) : r_found[k].external_review_id \in r_seen'
       /\ (r_out'.returned /\ ~r_out.returned) => r_out'.value = r_all']_vars

\* --------------------------------------------------------------------- C28
\* C28: for every interleaving of the worker threads, _parse_reviews returns
\* the valid reviews in the order their elements appear on the page (so that
\* the route's cut to the first 100 keeps the same reviews on every run).
ParsedInPageOrder ==
    n_extract > 0 => all_reviews = ValidReviews(page)

\* --------------------------------------------------------------------- C29
\* Every count read so far returned N, every load-more attempt found and
\* clicked the control, no count read failed, and max_rounds >= 3.  (The
\* window `seen` starts with the initial count 0 and keeps the latest
\* StableLimit + 1 values, so it holds every read of such a run.)
ConstantPage(N) ==
    /\ pc \in LoopPcs \cup {"parse"}
    /\ max_rounds >= StableLimit + 1
    /\ faults \subseteq {"expand"}
    /\ last_click \in {"none", "clicked"}
    /\ n_reads \in 1..Len(seen)
    /\ \A k \in (Len(seen) - n_reads + 1)..Len(seen) : seen[k] = N

\* the number of count reads after which a constant count N is stabilized
ReadsToStabilize(N) == IF N > 0 THEN StableLimit + 1 ELSE StableLimit

\* C29: with the load-more control always present and clickable and
\* max_rounds >= 3, a page whose loaded-item count is N in every round stops
\* the loader as stabilized, and for no other reason, after exactly 3 count
\* reads and 2 clicks when N > 0 and after exactly 2 count reads and 1 click
\* when N = 0.
ConstantCountStopsStabilized ==
    \A N \in 0..MaxCount :
        ConstantPage(N) =>
            /\ n_reads <= ReadsToStabilize(N)
            /\ stop_reason \in {"none", "stabilized"}
            /\ (stop_reason = "stabilized") <=> (n_reads = ReadsToStabilize(N))
            /\ stop_reason = "stabilized"
                 => pc = "parse" /\ n_clicks = ReadsToStabilize(N) - 1

\* C29 witness: an empty page (count 0 in both rounds) stopped the loader as
\* stabilized after 2 count reads and 1 click.
WitnessEmptyPageStabilized ==
    /\ ConstantPage(0)
    /\ stop_reason = "stabilized"
    /\ max_rounds >= 3
    /\ n_reads = 2
    /\ n_clicks = 1

\* --------------------------------------------------------------------- C30
\* two different rows that are active alerts of one product and one email
Duplicates ==
    { pair \in (1..Len(a_rows)) \X (1..Len(a_rows)) :
        /\ pair[1] < pair[2]
        /\ pair[2] \in ActiveMatches(a_rows, a_rows[pair[1]].product_id,
                                     a_rows[pair[1]].email)
        /\ pair[1] \in ActiveMatches(a_rows, a_rows[pair[1]].product_id,
                                     a_rows[pair[1]].email) }

\* C30: after any sequence and any interleaving of create, update and delete
\* price-alert requests there are never two active price alerts with the same
\* product_id and the same email.
NoDuplicateActiveAlerts == Duplicates = {}

====
